---------------------------- MODULE Spec2Model ----------------------------
(***************************************************************************)
(* State-machine model of the STM32H5 ADC extended HAL driver              *)
(* (Src/stm32h5xx_hal_adc_ex.c).                                           *)
(*                                                                         *)
(* Two ADC instances form one multimode pair: ADC1 is the master, ADC2 the *)
(* slave derived from it.  Every HAL function is one action; the outcome   *)
(* of each hardware confirmation wait (enable, disable, conversion stop,   *)
(* calibration, transfer engine) is an input of the action.  The hardware  *)
(* (end of a conversion, interrupt delivery) is the environment.           *)
(*                                                                         *)
(* Registers that carry numeric fields (JSQR, CALFACT, the staged context) *)
(* are sets of the bit positions that are 1; registers and status words    *)
(* made of independent flags are sets of flag names.                       *)
(***************************************************************************)
EXTENDS Integers, Sequences, FiniteSets, TLC

ADCs == {"ADC1", "ADC2"}

\* ------------------------------------------------------------- bounds
\* Highest channel number the configuration calls draw from.
MaxChannel == 2
\* Iteration bound of the calibration wait loop, scaled down.
ADC_CALIBRATION_TIMEOUT == 3
\* How many calibration factors one run of the calibration scenario sets.
MaxCalSets == 2
\* Conversions the hardware delivers after one start.
MaxConv == 4
\* Largest rank of the injected sequencer used by the configuration calls.
MaxRank == 3
\* Tick bound of the wait of the multimode stops, scaled down.
ADC_STOP_CONVERSION_TIMEOUT == 2
\* Last value of HAL_GetTick() the clock of the waiting scenario reaches.
MaxTick == 4

\* ------------------------------------------------------ bit-set words
Bits(n) == {i \in 0..30 : (n \div (2 ^ i)) % 2 = 1}

RECURSIVE Val(_)
Val(s) == IF s = {} THEN 0
          ELSE LET i == CHOOSE x \in s : TRUE IN (2 ^ i) + Val(s \ {i})

Shl(s, k) == {i + k : i \in s} \cap (0..31)
Shr(s, k) == {i - k : i \in s} \cap (0..31)

\* MODIFY_REG(REG, CLEARMASK, SETMASK): the set mask is not masked.
MODIFY_REG(reg, clearmask, setmask) == (reg \ clearmask) \cup setmask

\* ----------------------------------------------- register bit fields
ADC_JSQR_JL == 0..1
ADC_JSQR_JEXTSEL == 2..6
ADC_JSQR_JEXTEN == 7..8
ADC_JSQR_JSQ(rank) == (3 + 6 * rank)..(7 + 6 * rank)
ADC_JSQR_FIELDS == ADC_JSQR_JL \cup ADC_JSQR_JEXTSEL \cup ADC_JSQR_JEXTEN
                   \cup ADC_JSQR_JSQ(1) \cup ADC_JSQR_JSQ(2)
                   \cup ADC_JSQR_JSQ(3) \cup ADC_JSQR_JSQ(4)

\* ADC_JSQR_RK(channel, rank): the channel number placed in the rank's field.
ADC_JSQR_RK(channel, rank) == Shl(Bits(channel) \cap (0..4), 3 + 6 * rank)

\* Calibration factor register: single-ended factor in bits 6:0,
\* differential factor in bits 22:16.
ADC_CALFACT_MASK(SingleDiff) ==
  IF SingleDiff = "SINGLE_ENDED" THEN 0..6 ELSE 16..22
ADC_CALFACT_SHIFT(SingleDiff) ==
  IF SingleDiff = "SINGLE_ENDED" THEN 0 ELSE 16

LL_ADC_SetCalibrationFactor(calfact, SingleDiff, CalibrationFactor) ==
  MODIFY_REG(calfact, ADC_CALFACT_MASK(SingleDiff),
             Shl(Bits(CalibrationFactor), ADC_CALFACT_SHIFT(SingleDiff)))

LL_ADC_GetCalibrationFactor(calfact, SingleDiff) ==
  Val(Shr(calfact \cap ADC_CALFACT_MASK(SingleDiff), ADC_CALFACT_SHIFT(SingleDiff)))

\* ------------------------------------------------------------ pairing
\* __LL_ADC_MULTI_INSTANCE_MASTER: ADC2's master is ADC1, else the instance.
LL_ADC_MULTI_INSTANCE_MASTER(h) == IF h = "ADC2" THEN "ADC1" ELSE h

\* ADC_MULTI_SLAVE: the slave of ADC1 is ADC2; any other instance has none.
ADC_MULTI_SLAVE(h) == IF h = "ADC1" THEN "ADC2" ELSE "NULL"

MultiModes == {"INDEPENDENT", "DUAL_REG_SIMULT", "DUAL_REG_INTERL",
               "DUAL_INJ_SIMULT"}

\* ------------------------------------------------------------- state
VARIABLES
  hadc,    \* [ADCs -> handle]: State, ErrorCode, Lock, InjectionConfig, Init
  Inst,    \* [ADCs -> registers]: CR, ISR, IER, CFGR, JSQR, CALFACT, jseq
  CCR,     \* common control register of the pair: DUAL, DELAY, MDMA, DMACFG
  dma,     \* transfer engine bound to the master
  tick,    \* HAL_GetTick()
  last,    \* the last call: operation, instance, returned status, detail
  hist     \* history the properties read: per instance started flag, callbacks

vars == <<hadc, Inst, CCR, dma, tick, last, hist>>

\* The program state a HAL function reads and writes.
Machine == [hadc |-> hadc, Inst |-> Inst, CCR |-> CCR, dma |-> dma]

Res(m, ret) == [m |-> m, ret |-> ret]

\* ------------------------------------- primitives of the generic driver
\* enable(instance): arms the analog core and waits for the core-ready
\* confirmation; on timeout reports Timeout and marks ErrorInternal.
ADC_Enable(m, h, ok) ==
  IF "ADEN" \in m.Inst[h].CR THEN Res(m, "HAL_OK")
  ELSE IF ok THEN Res([m EXCEPT !.Inst[h].CR = @ \cup {"ADEN"}], "HAL_OK")
  ELSE Res([m EXCEPT !.Inst[h].CR = @ \cup {"ADEN"},
                     !.hadc[h].State = @ \cup {"ERROR_INTERNAL"},
                     !.hadc[h].ErrorCode = @ \cup {"INTERNAL"}], "HAL_TIMEOUT")

\* disable_if_idle(instance): fails with Busy while a conversion is ongoing
\* on either group, otherwise disables and waits for the confirmation.
ADC_Disable(m, h, ok) ==
  IF "ADEN" \notin m.Inst[h].CR THEN Res(m, "HAL_OK")
  ELSE IF m.Inst[h].CR \cap {"ADSTART", "JADSTART"} # {} THEN Res(m, "HAL_BUSY")
  ELSE IF ok THEN Res([m EXCEPT !.Inst[h].CR = @ \ {"ADEN"}], "HAL_OK")
  ELSE Res([m EXCEPT !.hadc[h].State = @ \cup {"ERROR_INTERNAL"},
                     !.hadc[h].ErrorCode = @ \cup {"INTERNAL"}], "HAL_TIMEOUT")

\* The CR start bits of a conversion group.
GroupBits(group) ==
  CASE group = "ADC_REGULAR_GROUP" -> {"ADSTART"}
    [] group = "ADC_INJECTED_GROUP" -> {"JADSTART"}
    [] OTHER -> {"ADSTART", "JADSTART"}

\* stop(group): requests the hardware stop and waits for the confirmed stop.
ADC_ConversionStop(m, h, group, ok) ==
  IF m.Inst[h].CR \cap GroupBits(group) = {} THEN Res(m, "HAL_OK")
  ELSE IF ok
    THEN Res([m EXCEPT !.Inst[h].CR = @ \ GroupBits(group),
                       !.Inst[h].jseq =
                          IF "JADSTART" \in GroupBits(group) THEN 0 ELSE @],
             "HAL_OK")
    ELSE Res([m EXCEPT !.hadc[h].State = @ \cup {"ERROR_INTERNAL"},
                       !.hadc[h].ErrorCode = @ \cup {"INTERNAL"}], "HAL_TIMEOUT")

\* __HAL_LOCK / __HAL_UNLOCK
Locked(m, h) == m.hadc[h].Lock = "HAL_LOCKED"
HAL_LOCK(m, h) == [m EXCEPT !.hadc[h].Lock = "HAL_LOCKED"]
HAL_UNLOCK(m, h) == [m EXCEPT !.hadc[h].Lock = "HAL_UNLOCKED"]


\* ------------------------------------------------ calibration (group 1)
\* The wait loop of HAL_ADCEx_Calibration_Start: `ongoing` is the number of
\* loop tests at which hardware still reports the calibration ongoing.
RECURSIVE CalibrationWait(_, _)
CalibrationWait(wait_loop_index, ongoing) ==
  IF wait_loop_index < ongoing
    THEN IF wait_loop_index + 1 >= ADC_CALIBRATION_TIMEOUT
           THEN "timeout"
           ELSE CalibrationWait(wait_loop_index + 1, ongoing)
    ELSE "done"

\* Status returned by the timeout exit of the calibration wait loop.
\* Variant that reports success.
Calibration_TimeoutStatus_Ok == "HAL_OK"
Calibration_TimeoutStatus == "HAL_ERROR"

\* State written by the timeout exit of the calibration wait loop.
\* Variant that leaves no trace of the failure.
Calibration_TimeoutState_Unmarked(State) == State \ {"BUSY_INTERNAL"}
Calibration_TimeoutState(State) ==
  (State \ {"BUSY_INTERNAL"}) \cup {"ERROR_INTERNAL"}

\* Largest calibration factor: the field of a sampling mode has 7 bits.
ADC_CALFACT_MAX == 127

\* The sampling modes, and factors the hardware calibration may produce.
SingleDiffs == {"SINGLE_ENDED", "DIFFERENTIAL_ENDED"}
HwCalFactors == {0, 9}

\* Variant that calibrates whatever the disable returned.
HAL_ADCEx_Calibration_Start_Unguarded(m, h, SingleDiff, disOk, ongoing, factor) ==
  IF Locked(m, h) THEN Res(m, "HAL_BUSY")
  ELSE
    LET d == ADC_Disable(HAL_LOCK(m, h), h, disOk) IN
    Res(HAL_UNLOCK(
          [d.m EXCEPT
             !.Inst[h].CALFACT =
                LL_ADC_SetCalibrationFactor(@, SingleDiff, factor),
             !.hadc[h].State =
                (@ \ {"REG_BUSY", "INJ_BUSY"}) \cup {"READY"}], h),
        "HAL_OK")
HAL_ADCEx_Calibration_Start(m, h, SingleDiff, disOk, ongoing, factor) ==
  IF Locked(m, h) THEN Res(m, "HAL_BUSY")
  ELSE
    LET d == ADC_Disable(HAL_LOCK(m, h), h, disOk) IN
    IF d.ret = "HAL_OK"
      THEN
        LET m1 == [d.m EXCEPT
                     !.hadc[h].State =
                        (@ \ {"REG_BUSY", "INJ_BUSY"}) \cup {"BUSY_INTERNAL"},
                     !.Inst[h].CR = @ \cup {"ADCAL"}]
        IN
        IF CalibrationWait(0, ongoing) = "timeout"
          THEN Res(HAL_UNLOCK(
                     [m1 EXCEPT !.hadc[h].State = Calibration_TimeoutState(@)], h),
                   Calibration_TimeoutStatus)
          ELSE Res(HAL_UNLOCK(
                     [m1 EXCEPT
                        !.Inst[h].CR = @ \ {"ADCAL"},
                        !.Inst[h].CALFACT =
                           LL_ADC_SetCalibrationFactor(@, SingleDiff, factor),
                        !.hadc[h].State =
                           (@ \ {"BUSY_INTERNAL"}) \cup {"READY"}], h),
                   "HAL_OK")
      ELSE Res(HAL_UNLOCK(
                 [d.m EXCEPT !.hadc[h].State = @ \cup {"ERROR_INTERNAL"}], h),
               d.ret)

\* Variant that always reads the single-ended factor.
HAL_ADCEx_Calibration_GetValue_Single(m, h, SingleDiff) ==
  LL_ADC_GetCalibrationFactor(m.Inst[h].CALFACT, "SINGLE_ENDED")
HAL_ADCEx_Calibration_GetValue(m, h, SingleDiff) ==
  LL_ADC_GetCalibrationFactor(m.Inst[h].CALFACT, SingleDiff)

\* The hardware constraint HAL_ADCEx_Calibration_SetValue verifies.
\* Variant that looks at the regular group only.
Calibration_SetValue_Allowed_Regular(CR) ==
  /\ "ADEN" \in CR
  /\ "ADSTART" \notin CR
Calibration_SetValue_Allowed(CR) ==
  /\ "ADEN" \in CR
  /\ "ADSTART" \notin CR
  /\ "JADSTART" \notin CR

HAL_ADCEx_Calibration_SetValue(m, h, SingleDiff, CalibrationFactor) ==
  IF Locked(m, h) THEN Res(m, "HAL_BUSY")
  ELSE
    LET m0 == HAL_LOCK(m, h) IN
    IF Calibration_SetValue_Allowed(m0.Inst[h].CR)
      THEN Res(HAL_UNLOCK(
                 [m0 EXCEPT !.Inst[h].CALFACT =
                    LL_ADC_SetCalibrationFactor(@, SingleDiff, CalibrationFactor)],
                 h),
               "HAL_OK")
      ELSE Res(HAL_UNLOCK(
                 [m0 EXCEPT !.hadc[h].State = @ \cup {"ERROR_CONFIG"},
                            !.hadc[h].ErrorCode = @ \cup {"INTERNAL"}], h),
               "HAL_ERROR")

\* ---------------------------------------- injected start / stop (group 1)
\* The queue check of the injected start: JEXTEN = 0 with JQDIS = 0.
\* Variant that tests the queue disabled instead of enabled.
InjectedStart_QueueError_Disabled(I) ==
  /\ I.JSQR \cap ADC_JSQR_JEXTEN = {}
  /\ "JQDIS" \in I.CFGR
InjectedStart_QueueError(I) ==
  /\ I.JSQR \cap ADC_JSQR_JEXTEN = {}
  /\ "JQDIS" \notin I.CFGR

\* Whether the instance starts its injected conversion itself: it is not a
\* multimode slave with multimode injected conversions enabled.
\* Variant in which every instance starts its conversion itself.
InjectedStart_ArmsItself_Always(h, tmp_multimode_config) ==
  tmp_multimode_config \in MultiModes
InjectedStart_ArmsItself(h, tmp_multimode_config) ==
  \/ LL_ADC_MULTI_INSTANCE_MASTER(h) = h
  \/ tmp_multimode_config = "INDEPENDENT"
  \/ tmp_multimode_config = "DUAL_REG_SIMULT"
  \/ tmp_multimode_config = "DUAL_REG_INTERL"

\* The end-of-conversion interrupt selection of HAL_ADCEx_InjectedStart_IT.
\* Variant that enables the end-of-conversion interrupt whatever the selection.
InjectedStart_IT_Select_Each(IER, EOCSelection) == (IER \ {"JEOS"}) \cup {"JEOC"}
InjectedStart_IT_Select(IER, EOCSelection) ==
  IF EOCSelection = "ADC_EOC_SEQ_CONV"
    THEN (IER \ {"JEOC"}) \cup {"JEOS"}
    ELSE (IER \ {"JEOS"}) \cup {"JEOC"}

\* The state of the handle once the ADC is enabled by an injected start.
\* Variant that forgets the busy bit of the injected group.
InjectedStart_State_NoBusy(State) == State \ {"READY", "INJ_EOC"}
InjectedStart_State(State) == (State \ {"READY", "INJ_EOC"}) \cup {"INJ_BUSY"}

\* HAL_ADCEx_InjectedStart (it = FALSE) and HAL_ADCEx_InjectedStart_IT
\* (it = TRUE): the two functions differ only by the interrupt enables.
InjectedStartBody(m, h, it, enOk) ==
  LET tmp_multimode_config == m.CCR.DUAL IN
  IF "JADSTART" \in m.Inst[h].CR THEN Res(m, "HAL_BUSY")
  ELSE IF InjectedStart_QueueError(m.Inst[h])
    THEN Res([m EXCEPT !.hadc[h].State = @ \cup {"ERROR_CONFIG"}], "HAL_ERROR")
  ELSE IF Locked(m, h) THEN Res(m, "HAL_BUSY")
  ELSE
    LET e == ADC_Enable(HAL_LOCK(m, h), h, enOk) IN
    IF e.ret = "HAL_OK"
      THEN
        LET m1 == [e.m EXCEPT
                     !.hadc[h].ErrorCode =
                        IF "REG_BUSY" \in e.m.hadc[h].State
                          THEN @ \ {"JQOVF"} ELSE {},
                     !.hadc[h].State = InjectedStart_State(@)]
            m2 == IF \/ LL_ADC_MULTI_INSTANCE_MASTER(h) = h
                     \/ tmp_multimode_config = "INDEPENDENT"
                    THEN [m1 EXCEPT !.hadc[h].State = @ \ {"MULTIMODE_SLAVE"}]
                    ELSE m1
            m3 == HAL_UNLOCK([m2 EXCEPT !.Inst[h].ISR = @ \ {"JEOC", "JEOS"}], h)
            m4 == IF it
                    THEN [m3 EXCEPT !.Inst[h].IER =
                            InjectedStart_IT_Select(
                              IF "JQM" \in m3.Inst[h].CFGR
                                THEN @ \cup {"JQOVF"} ELSE @,
                              m3.hadc[h].Init.EOCSelection)]
                    ELSE m3
            m5 == IF InjectedStart_ArmsItself(h, tmp_multimode_config)
                    THEN IF "JAUTO" \notin m4.Inst[h].CFGR
                           THEN [m4 EXCEPT !.Inst[h].CR = @ \cup {"JADSTART"}]
                           ELSE m4
                    ELSE [m4 EXCEPT !.hadc[h].State = @ \cup {"MULTIMODE_SLAVE"}]
        IN Res(m5, "HAL_OK")
      ELSE Res(HAL_UNLOCK(e.m, h), e.ret)

\* Variant that does not look at the conversion ongoing on the group.
HAL_ADCEx_InjectedStart_Unchecked(m, h, enOk) ==
  LET r == InjectedStartBody([m EXCEPT !.Inst[h].CR = @ \ {"JADSTART"}],
                             h, FALSE, enOk)
  IN Res([r.m EXCEPT !.Inst[h].CR = @ \cup (m.Inst[h].CR \cap {"JADSTART"})],
         r.ret)
HAL_ADCEx_InjectedStart(m, h, enOk) == InjectedStartBody(m, h, FALSE, enOk)
HAL_ADCEx_InjectedStart_IT(m, h, enOk) == InjectedStartBody(m, h, TRUE, enOk)

\* The group HAL_ADCEx_InjectedStop stops.
\* Variant that stops the regular group too.
InjectedStop_Group_Both == "ADC_REGULAR_INJECTED_GROUP"
InjectedStop_Group == "ADC_INJECTED_GROUP"

\* HAL_ADCEx_InjectedStop (it = FALSE) and HAL_ADCEx_InjectedStop_IT
\* (it = TRUE).
InjectedStopBody(m, h, it, stopOk, disOk) ==
  IF Locked(m, h) THEN Res(m, "HAL_BUSY")
  ELSE
    LET c == ADC_ConversionStop(HAL_LOCK(m, h), h, InjectedStop_Group, stopOk) IN
    IF c.ret = "HAL_OK"
      THEN
        LET m1 == IF it
                    THEN [c.m EXCEPT !.Inst[h].IER = @ \ {"JEOC", "JEOS", "JQOVF"}]
                    ELSE c.m
        IN
        IF "ADSTART" \notin m1.Inst[h].CR
          THEN
            LET d == ADC_Disable(m1, h, disOk) IN
            IF d.ret = "HAL_OK"
              THEN Res(HAL_UNLOCK(
                         [d.m EXCEPT !.hadc[h].State =
                            (@ \ {"REG_BUSY", "INJ_BUSY"}) \cup {"READY"}], h),
                       "HAL_OK")
              ELSE Res(HAL_UNLOCK(d.m, h), d.ret)
          ELSE Res(HAL_UNLOCK(
                     [m1 EXCEPT !.hadc[h].State = @ \ {"INJ_BUSY"}], h),
                   "HAL_OK")
      ELSE Res(HAL_UNLOCK(c.m, h), c.ret)

HAL_ADCEx_InjectedStop(m, h, stopOk, disOk) ==
  InjectedStopBody(m, h, FALSE, stopOk, disOk)
HAL_ADCEx_InjectedStop_IT(m, h, stopOk, disOk) ==
  InjectedStopBody(m, h, TRUE, stopOk, disOk)


\* ------------------------------------------- regular stop (group 1)
\* HAL_ADCEx_RegularStop (variant "POLL") and HAL_ADCEx_RegularStop_IT
\* (variant "IT").
RegularStopBody(m, h, it, stopOk, disOk) ==
  IF Locked(m, h) THEN Res(m, "HAL_BUSY")
  ELSE
    LET c == ADC_ConversionStop(HAL_LOCK(m, h), h, "ADC_REGULAR_GROUP", stopOk) IN
    IF c.ret = "HAL_OK"
      THEN
        LET m1 == [c.m EXCEPT
                     !.hadc[h].State = @ \ {"REG_BUSY"},
                     !.Inst[h].IER = IF it THEN @ \ {"EOC", "EOS", "OVR"} ELSE @]
        IN
        IF "JADSTART" \notin m1.Inst[h].CR
          THEN
            LET d == ADC_Disable(m1, h, disOk) IN
            IF d.ret = "HAL_OK"
              THEN Res(HAL_UNLOCK(
                         [d.m EXCEPT !.hadc[h].State =
                            (@ \ {"INJ_BUSY"}) \cup {"READY"}], h),
                       "HAL_OK")
              ELSE Res(HAL_UNLOCK(d.m, h), d.ret)
          ELSE Res(HAL_UNLOCK(
                     [m1 EXCEPT !.hadc[h].State = @ \cup {"INJ_BUSY"}], h),
                   "HAL_OK")
      ELSE Res(HAL_UNLOCK(c.m, h), c.ret)

HAL_ADCEx_RegularStop(m, h, stopOk, disOk) ==
  RegularStopBody(m, h, FALSE, stopOk, disOk)
HAL_ADCEx_RegularStop_IT(m, h, stopOk, disOk) ==
  RegularStopBody(m, h, TRUE, stopOk, disOk)

\* HAL_DMA_Abort of the transfer engine: idempotent on an idle transfer.
HAL_DMA_Abort(m, ok) ==
  IF ok THEN Res([m EXCEPT !.dma.State = "READY"], "HAL_OK")
  ELSE Res(m, "HAL_ERROR")

HAL_ADCEx_RegularStop_DMA(m, h, stopOk, abortOk, disOk) ==
  IF Locked(m, h) THEN Res(m, "HAL_BUSY")
  ELSE
    LET c == ADC_ConversionStop(HAL_LOCK(m, h), h, "ADC_REGULAR_GROUP", stopOk) IN
    IF c.ret = "HAL_OK"
      THEN
        LET m1 == [c.m EXCEPT !.hadc[h].State = @ \ {"REG_BUSY"},
                              !.Inst[h].CFGR = @ \ {"DMAEN"}]
            a == HAL_DMA_Abort(m1, abortOk)
            m2 == [a.m EXCEPT
                     !.hadc[h].State =
                        IF a.ret # "HAL_OK" THEN @ \cup {"ERROR_DMA"} ELSE @,
                     !.Inst[h].IER = @ \ {"OVR"}]
        IN
        IF "JADSTART" \notin m2.Inst[h].CR
          THEN
            LET d == ADC_Disable(m2, h, disOk)
                tmp_hal_status == IF a.ret = "HAL_OK" THEN d.ret ELSE a.ret
            IN
            IF tmp_hal_status = "HAL_OK"
              THEN Res(HAL_UNLOCK(
                         [d.m EXCEPT !.hadc[h].State =
                            (@ \ {"INJ_BUSY"}) \cup {"READY"}], h),
                       "HAL_OK")
              ELSE Res(HAL_UNLOCK(d.m, h), tmp_hal_status)
          ELSE Res(HAL_UNLOCK(
                     [m2 EXCEPT !.hadc[h].State = @ \cup {"INJ_BUSY"}], h),
                   a.ret)
      ELSE Res(HAL_UNLOCK(c.m, h), c.ret)

\* ------------------------------- injected queue enable / disable (group 2)
HAL_ADCEx_EnableInjectedQueue(m, h) ==
  IF "ADSTART" \notin m.Inst[h].CR /\ "JADSTART" \notin m.Inst[h].CR
    THEN Res([m EXCEPT !.Inst[h].CFGR = @ \ {"JQDIS"},
                       !.hadc[h].State = @ \ {"INJ_JQOVF"}], "HAL_OK")
    ELSE Res(m, "HAL_ERROR")

\* Variant that only looks at the regular group.
HAL_ADCEx_DisableInjectedQueue_Regular(m, h) ==
  IF "ADSTART" \notin m.Inst[h].CR
    THEN Res([m EXCEPT !.Inst[h].CFGR =
                MODIFY_REG(@, {"JQM", "JQDIS"}, {"JQDIS"})], "HAL_OK")
    ELSE Res(m, "HAL_ERROR")
HAL_ADCEx_DisableInjectedQueue(m, h) ==
  IF "ADSTART" \notin m.Inst[h].CR /\ "JADSTART" \notin m.Inst[h].CR
    THEN Res([m EXCEPT !.Inst[h].CFGR =
                MODIFY_REG(@, {"JQM", "JQDIS"}, {"JQDIS"})], "HAL_OK")
    ELSE Res(m, "HAL_ERROR")


\* --------------------------------- injected channel configuration (group 2)
\* JSQR bits of the external trigger selection and of its edge.
TrigBits(ExternalTrigInjecConv) ==
  IF ExternalTrigInjecConv = "ADC_INJECTED_SOFTWARE_START" THEN {} ELSE {2}
EdgeBits(ExternalTrigInjecConvEdge) ==
  IF ExternalTrigInjecConvEdge = "RISING" THEN {7} ELSE {}

\* Trigger part of the context being built.
InjectedConfig_Trigger(cfg) ==
  IF cfg.ExternalTrigInjecConv # "ADC_INJECTED_SOFTWARE_START"
    THEN (TrigBits(cfg.ExternalTrigInjecConv) \cap ADC_JSQR_JEXTSEL)
         \cup EdgeBits(cfg.ExternalTrigInjecConvEdge)
    ELSE {}

\* Whether the call that leaves `ChannelCount` ranks to supply writes JSQR.
\* Variant that writes JSQR at every call.
InjectedConfig_Commits_Always(ChannelCount) == ChannelCount >= 0
InjectedConfig_Commits(ChannelCount) == ChannelCount = 0

\* Configuration of the injected group sequencer: JSQR, the staged context
\* InjectionConfig.ContextQueue and the remaining-rank count.
InjectedConfig_Sequencer(m, h, cfg) ==
  IF \/ m.hadc[h].Init.ScanConvMode = "ADC_SCAN_DISABLE"
     \/ cfg.InjectedNbrOfConversion = 1
    THEN
      IF cfg.InjectedRank = 1
        THEN
          LET tmp_jsqr_context_queue_being_built ==
                ADC_JSQR_RK(cfg.InjectedChannel, 1) \cup InjectedConfig_Trigger(cfg)
          IN [m EXCEPT
                !.Inst[h].JSQR = MODIFY_REG(@, ADC_JSQR_FIELDS,
                                            tmp_jsqr_context_queue_being_built),
                !.hadc[h].InjectionConfig.ContextQueue =
                   tmp_jsqr_context_queue_being_built]
        ELSE m
    ELSE
      LET first == m.hadc[h].InjectionConfig.ChannelCount = 0
          count0 == IF first THEN cfg.InjectedNbrOfConversion
                    ELSE m.hadc[h].InjectionConfig.ChannelCount
          queue0 == IF first THEN {} ELSE m.hadc[h].InjectionConfig.ContextQueue
          tmp0 == IF first
                    THEN Bits(cfg.InjectedNbrOfConversion - 1)
                         \cup InjectedConfig_Trigger(cfg)
                    ELSE {}
          \* Clear the old JSQx bits for the selected rank, then set them.
          tmp1 == (tmp0 \ ADC_JSQR_JSQ(cfg.InjectedRank))
                  \cup ADC_JSQR_RK(cfg.InjectedChannel, cfg.InjectedRank)
          count1 == count0 - 1
          queue1 == queue0 \cup tmp1
      IN [m EXCEPT
            !.hadc[h].InjectionConfig.ChannelCount = count1,
            !.hadc[h].InjectionConfig.ContextQueue = queue1,
            !.Inst[h].JSQR = IF InjectedConfig_Commits(count1)
                               THEN MODIFY_REG(@, ADC_JSQR_FIELDS, queue1)
                               ELSE @]

\* Parameters updated without injected conversion ongoing: JQM, JDISCEN.
\* Variant that writes them whatever the injected group does.
InjectedConfig_Queue_Always(m, h, cfg) ==
  [m EXCEPT
     !.Inst[h].OR = IF cfg.InjectedChannel = 0
                         \/ (cfg.InjectedChannel = 1
                             /\ cfg.InjectedSingleDiff = "DIFFERENTIAL_ENDED")
                      THEN @ \cup {"OP0"} ELSE @,
     !.Inst[h].CFGR =
        MODIFY_REG(@, {"JQM", "JDISCEN"},
          (IF cfg.QueueInjectedContext THEN {"JQM"} ELSE {})
          \cup (IF ~cfg.AutoInjectedConv /\ cfg.InjectedDiscontinuousConvMode
                  THEN {"JDISCEN"} ELSE {}))]
InjectedConfig_Queue(m, h, cfg) ==
  IF "JADSTART" \notin m.Inst[h].CR
    THEN [m EXCEPT
            !.Inst[h].OR = IF cfg.InjectedChannel = 0
                                \/ (cfg.InjectedChannel = 1
                                    /\ cfg.InjectedSingleDiff = "DIFFERENTIAL_ENDED")
                             THEN @ \cup {"OP0"} ELSE @,
            !.Inst[h].CFGR =
               MODIFY_REG(@, {"JQM", "JDISCEN"},
                 (IF cfg.QueueInjectedContext THEN {"JQM"} ELSE {})
                 \cup (IF ~cfg.AutoInjectedConv /\ cfg.InjectedDiscontinuousConvMode
                         THEN {"JDISCEN"} ELSE {}))]
    ELSE m

\* Parameters updated without conversion ongoing on either group: JAUTO,
\* oversampling, sampling time, offset.  Returns the status too.
InjectedConfig_Idle(m, h, cfg) ==
  IF "ADSTART" \notin m.Inst[h].CR /\ "JADSTART" \notin m.Inst[h].CR
    THEN
      LET sw == \/ cfg.ExternalTrigInjecConv = "ADC_INJECTED_SOFTWARE_START"
                \/ cfg.ExternalTrigInjecConvEdge = "NONE"
          err == ~sw /\ cfg.AutoInjectedConv
          m1 == [m EXCEPT
                   !.Inst[h].CFGR =
                      IF sw THEN (IF cfg.AutoInjectedConv
                                    THEN @ \cup {"JAUTO"} ELSE @ \ {"JAUTO"})
                      ELSE IF cfg.AutoInjectedConv THEN @ ELSE @ \ {"JAUTO"},
                   !.hadc[h].State = IF err THEN @ \cup {"ERROR_CONFIG"} ELSE @,
                   !.Inst[h].CFGR2 = IF cfg.InjecOversamplingMode
                                       THEN @ \cup {"JOVSE"} ELSE @ \ {"JOVSE"},
                   !.Inst[h].SMPR[cfg.InjectedChannel] =
                      IF cfg.InjectedSamplingTime = "3CYCLES_5"
                        THEN "2CYCLES_5" ELSE cfg.InjectedSamplingTime,
                   !.Inst[h].SMPRPLUS = (cfg.InjectedSamplingTime = "3CYCLES_5"),
                   !.Inst[h].OFR =
                      IF cfg.InjectedOffsetNumber # "ADC_OFFSET_NONE"
                        THEN [@ EXCEPT ![cfg.InjectedOffsetNumber] =
                                [en |-> TRUE, ch |-> cfg.InjectedChannel]]
                        ELSE [n \in DOMAIN @ |->
                                IF @[n].ch = cfg.InjectedChannel
                                  THEN [@[n] EXCEPT !.en = FALSE] ELSE @[n]]]
      IN Res(m1, IF err THEN "HAL_ERROR" ELSE "HAL_OK")
    ELSE Res(m, "HAL_OK")

\* Parameters updated only with the ADC disabled: single / differential.
InjectedConfig_Disabled(m, h, cfg) ==
  IF "ADEN" \notin m.Inst[h].CR
    THEN [m EXCEPT
            !.Inst[h].DIFSEL =
               IF cfg.InjectedSingleDiff = "DIFFERENTIAL_ENDED"
                 THEN @ \cup {cfg.InjectedChannel} ELSE @ \ {cfg.InjectedChannel},
            !.Inst[h].SMPR =
               IF cfg.InjectedSingleDiff = "DIFFERENTIAL_ENDED"
                 THEN [@ EXCEPT ![cfg.InjectedChannel + 1] = cfg.InjectedSamplingTime]
                 ELSE @]
    ELSE m

HAL_ADCEx_InjectedConfigChannel(m, h, cfg) ==
  IF Locked(m, h) THEN Res(m, "HAL_BUSY")
  ELSE
    LET m1 == InjectedConfig_Sequencer(HAL_LOCK(m, h), h, cfg)
        m2 == InjectedConfig_Queue(m1, h, cfg)
        r3 == InjectedConfig_Idle(m2, h, cfg)
        m4 == InjectedConfig_Disabled(r3.m, h, cfg)
    IN Res(HAL_UNLOCK(m4, h), r3.ret)


\* ------------------------------------------------- multimode (groups 1, 2)
\* Length converted to a number of bytes for the element width.
\* The product is a 32-bit word: Length * 4 wraps at 2^32, that is, the two
\* upper bits of Length are lost.
\* Variant that hands over the number of elements.
LengthBytes_Elements(Length, SrcDataWidth) == Length
LengthBytes(Length, SrcDataWidth) ==
  CASE SrcDataWidth = "WORD" -> (Length % (2 ^ 30)) * 4
    [] SrcDataWidth = "HALFWORD" -> Length * 2
    [] OTHER -> Length

\* HAL_DMA_Start_IT / HAL_DMAEx_List_Start_IT of the transfer engine.
HAL_DMA_Start(m, src, dst, len, ok) ==
  IF m.dma.State = "READY" /\ ok
    THEN Res([m EXCEPT !.dma.State = "BUSY", !.dma.Src = src,
                       !.dma.Dst = dst, !.dma.Len = len], "HAL_OK")
    ELSE Res(m, "HAL_ERROR")

\* ADC_Enable called on the temporary slave handle: the registers of the
\* slave change, the State and ErrorCode written are those of the temporary.
ADC_Enable_Tmp(m, slave, ok) ==
  LET e == ADC_Enable(m, slave, ok) IN Res([m EXCEPT !.Inst = e.m.Inst], e.ret)

ADC_Disable_Tmp(m, slave, ok) ==
  LET d == ADC_Disable(m, slave, ok) IN Res([m EXCEPT !.Inst = d.m.Inst], d.ret)

\* Variant that starts the transfer as soon as the master is enabled.
HAL_ADCEx_MultiModeStart_DMA_MasterOnly(m, h, pData, Length, enOk, enOkSlave, nodeOk, dmaOk) ==
  IF "ADSTART" \in m.Inst[h].CR THEN Res(m, "HAL_BUSY")
  ELSE IF Locked(m, h) THEN Res(m, "HAL_BUSY")
  ELSE IF ADC_MULTI_SLAVE(h) = "NULL"
    THEN Res([m EXCEPT !.hadc[h].State = @ \cup {"ERROR_CONFIG"}], "HAL_ERROR")
  ELSE
    LET e1 == ADC_Enable(HAL_LOCK(m, h), h, enOk)
        e2 == IF e1.ret = "HAL_OK"
                THEN ADC_Enable_Tmp(e1.m, ADC_MULTI_SLAVE(h), enOkSlave)
                ELSE e1
    IN
    IF e1.ret = "HAL_OK"
      THEN
        LET m1 == [e2.m EXCEPT
                     !.hadc[h].State =
                        (@ \ {"READY", "REG_EOC", "REG_OVR", "REG_EOSMP"})
                        \cup {"REG_BUSY"},
                     !.hadc[h].ErrorCode = {},
                     !.dma.Callbacks = "ADC",
                     !.Inst[h].ISR = @ \ {"EOC", "EOS", "OVR"}]
            m2 == [HAL_UNLOCK(m1, h) EXCEPT !.Inst[h].IER = @ \cup {"OVR"}]
        IN
        IF m2.dma.Mode = "LINKEDLIST"
          THEN
            IF m2.dma.LinkedListQueue = "HEAD"
              THEN
                IF ~nodeOk THEN Res(m2, "HAL_ERROR")
                ELSE
                  LET s == HAL_DMA_Start(m2, "CDR", pData,
                             LengthBytes(Length, m2.dma.NodeSrcDataWidth), dmaOk)
                  IN Res([s.m EXCEPT !.Inst[h].CR = @ \cup {"ADSTART"}], s.ret)
              ELSE Res(m2, "HAL_ERROR")
          ELSE
            LET s == HAL_DMA_Start(m2, "CDR", pData,
                       LengthBytes(Length, m2.dma.SrcDataWidth), dmaOk)
            IN Res([s.m EXCEPT !.Inst[h].CR = @ \cup {"ADSTART"}], s.ret)
      ELSE Res(HAL_UNLOCK(e2.m, h), e2.ret)

HAL_ADCEx_MultiModeStart_DMA(m, h, pData, Length, enOk, enOkSlave, nodeOk, dmaOk) ==
  IF "ADSTART" \in m.Inst[h].CR THEN Res(m, "HAL_BUSY")
  ELSE IF Locked(m, h) THEN Res(m, "HAL_BUSY")
  ELSE IF ADC_MULTI_SLAVE(h) = "NULL"
    THEN Res([m EXCEPT !.hadc[h].State = @ \cup {"ERROR_CONFIG"}], "HAL_ERROR")
  ELSE
    LET e1 == ADC_Enable(HAL_LOCK(m, h), h, enOk)
        e2 == IF e1.ret = "HAL_OK"
                THEN ADC_Enable_Tmp(e1.m, ADC_MULTI_SLAVE(h), enOkSlave)
                ELSE e1
    IN
    IF e2.ret = "HAL_OK"
      THEN
        LET m1 == [e2.m EXCEPT
                     !.hadc[h].State =
                        (@ \ {"READY", "REG_EOC", "REG_OVR", "REG_EOSMP"})
                        \cup {"REG_BUSY"},
                     !.hadc[h].ErrorCode = {},
                     !.dma.Callbacks = "ADC",
                     !.Inst[h].ISR = @ \ {"EOC", "EOS", "OVR"}]
            m2 == [HAL_UNLOCK(m1, h) EXCEPT !.Inst[h].IER = @ \cup {"OVR"}]
        IN
        IF m2.dma.Mode = "LINKEDLIST"
          THEN
            IF m2.dma.LinkedListQueue = "HEAD"
              THEN
                IF ~nodeOk THEN Res(m2, "HAL_ERROR")
                ELSE
                  LET s == HAL_DMA_Start(m2, "CDR", pData,
                             LengthBytes(Length, m2.dma.NodeSrcDataWidth), dmaOk)
                  IN Res([s.m EXCEPT !.Inst[h].CR = @ \cup {"ADSTART"}], s.ret)
              ELSE Res(m2, "HAL_ERROR")
          ELSE
            LET s == HAL_DMA_Start(m2, "CDR", pData,
                       LengthBytes(Length, m2.dma.SrcDataWidth), dmaOk)
            IN Res([s.m EXCEPT !.Inst[h].CR = @ \cup {"ADSTART"}], s.ret)
      ELSE Res(HAL_UNLOCK(e2.m, h), e2.ret)

\* __LL_ADC_IS_ENABLED_ALL_COMMON_INSTANCE
\* Variant that looks at the master only.
LL_ADC_IS_ENABLED_MASTER(m) == "ADEN" \in m.Inst["ADC1"].CR
LL_ADC_IS_ENABLED_ALL_COMMON_INSTANCE(m) ==
  \E a \in ADCs : "ADEN" \in m.Inst[a].CR

HAL_ADCEx_MultiModeConfigChannel(m, h, pMultimode) ==
  IF Locked(m, h) THEN Res(m, "HAL_BUSY")
  ELSE IF ADC_MULTI_SLAVE(h) = "NULL"
    THEN Res([m EXCEPT !.hadc[h].State = @ \cup {"ERROR_CONFIG"}], "HAL_ERROR")
  ELSE
    IF /\ "ADSTART" \notin m.Inst[h].CR
       /\ "ADSTART" \notin m.Inst[ADC_MULTI_SLAVE(h)].CR
      THEN
        IF pMultimode.Mode # "INDEPENDENT"
          THEN
            LET m1 == [m EXCEPT !.CCR.MDMA = pMultimode.DMAAccessMode,
                                !.CCR.DMACFG = m.hadc[h].Init.DMAContinuousRequests]
            IN
            IF ~LL_ADC_IS_ENABLED_ALL_COMMON_INSTANCE(m1)
              THEN Res([m1 EXCEPT !.CCR.DUAL = pMultimode.Mode,
                                  !.CCR.DELAY = pMultimode.TwoSamplingDelay],
                       "HAL_OK")
              ELSE Res(m1, "HAL_OK")
          ELSE
            LET m1 == [m EXCEPT !.CCR.MDMA = "DISABLED", !.CCR.DMACFG = FALSE]
            IN
            IF ~LL_ADC_IS_ENABLED_ALL_COMMON_INSTANCE(m1)
              THEN Res([m1 EXCEPT !.CCR.DUAL = "INDEPENDENT", !.CCR.DELAY = 0],
                       "HAL_OK")
              ELSE Res(m1, "HAL_OK")
      ELSE Res([m EXCEPT !.hadc[h].State = @ \cup {"ERROR_CONFIG"}], "HAL_ERROR")

\* ----------------------------------------- completion of injected group
\* CFGR that decides the continuation: the master's for a multimode slave
\* with multimode injected conversions.
CompletionCFGR(m, h) ==
  IF InjectedStart_ArmsItself(h, m.CCR.DUAL)
    THEN m.Inst[h].CFGR
    ELSE m.Inst[LL_ADC_MULTI_INSTANCE_MASTER(h)].CFGR

\* Whether no further injected conversion is expected after a completion.
NoFurtherInjected(m, h) ==
  LET tmp_cfgr == CompletionCFGR(m, h) IN
  \/ m.Inst[h].JSQR \cap ADC_JSQR_JEXTEN = {}
  \/ /\ "JAUTO" \notin tmp_cfgr
     /\ "EXTEN" \notin m.Inst[h].CFGR
     /\ "CONT" \notin tmp_cfgr

\* Update of the state machine at a completion of the injected group.
\* Variant that sets READY without looking at the regular group.
InjectedCompletion_Ready(m, h) ==
  LET m1 == [m EXCEPT !.hadc[h].State = @ \cup {"INJ_EOC"}] IN
  IF /\ NoFurtherInjected(m1, h)
     /\ "JEOS" \in m1.Inst[h].ISR
     /\ "JQM" \notin CompletionCFGR(m1, h)
    THEN [m1 EXCEPT !.hadc[h].State = (@ \ {"INJ_BUSY"}) \cup {"READY"}]
    ELSE m1
InjectedCompletion(m, h) ==
  LET m1 == [m EXCEPT !.hadc[h].State = @ \cup {"INJ_EOC"}] IN
  IF /\ NoFurtherInjected(m1, h)
     /\ "JEOS" \in m1.Inst[h].ISR
     /\ "JQM" \notin CompletionCFGR(m1, h)
    THEN [m1 EXCEPT !.hadc[h].State =
            IF "REG_BUSY" \notin @
              THEN (@ \ {"INJ_BUSY"}) \cup {"READY"}
              ELSE @ \ {"INJ_BUSY"}]
    ELSE m1

\* Interrupt-time completion of the injected group: the state machine is
\* updated, the injected-complete callback is due, the flags are cleared.
IRQ_InjectedPending(m, h) ==
  \/ "JEOC" \in m.Inst[h].ISR /\ "JEOC" \in m.Inst[h].IER
  \/ "JEOS" \in m.Inst[h].ISR /\ "JEOS" \in m.Inst[h].IER

HAL_ADC_IRQHandler_Injected(m, h) ==
  [InjectedCompletion(m, h) EXCEPT !.Inst[h].ISR = @ \ {"JEOC", "JEOS"}]


\* ------------------------------------------- regular start (generic driver)
\* start(regular): fails Busy if hardware reports the group converting;
\* enables the engine, clears the stale completion flags, sets the busy bit,
\* clears the ready bit and arms the hardware trigger.
HAL_ADC_Start(m, h, enOk) ==
  IF "ADSTART" \in m.Inst[h].CR THEN Res(m, "HAL_BUSY")
  ELSE IF Locked(m, h) THEN Res(m, "HAL_BUSY")
  ELSE
    LET e == ADC_Enable(HAL_LOCK(m, h), h, enOk) IN
    IF e.ret = "HAL_OK"
      THEN Res(HAL_UNLOCK(
                 [e.m EXCEPT
                    !.hadc[h].State =
                       (@ \ {"READY", "REG_EOC", "REG_OVR", "REG_EOSMP"})
                       \cup {"REG_BUSY"},
                    !.Inst[h].ISR = @ \ {"EOC", "EOS", "OVR"},
                    !.Inst[h].CR = @ \cup {"ADSTART"}], h),
               "HAL_OK")
      ELSE Res(HAL_UNLOCK(e.m, h), e.ret)

\* ------------------------------------------------------------ hardware
\* Ranks of the injected sequence of the context in JSQR.
InjectedLength(I) == Val(I.JSQR \cap ADC_JSQR_JL) + 1

\* Whether the slave converts with the master (multimode injected).
ConvertsWith(m, a, h) ==
  \/ a = h
  \/ /\ a = ADC_MULTI_SLAVE(h)
     /\ ~InjectedStart_ArmsItself(a, m.CCR.DUAL)
     /\ "ADEN" \in m.Inst[a].CR

\* End of the conversion of one injected rank: JEOC is raised, and at the
\* end of the sequence JEOS too; a software-started sequence ends there.
HW_InjectedConversion(m, h) ==
  LET I == m.Inst[h]
      last_rank == I.jseq + 1 >= InjectedLength(I)
      flags == IF last_rank THEN {"JEOC", "JEOS"} ELSE {"JEOC"}
  IN [m EXCEPT
        !.Inst = [a \in ADCs |->
                    IF a = h
                      THEN [I EXCEPT
                              !.ISR = @ \cup flags,
                              !.jseq = IF last_rank THEN 0 ELSE @ + 1,
                              !.CR = IF last_rank /\ I.JSQR \cap ADC_JSQR_JEXTEN = {}
                                       THEN @ \ {"JADSTART"} ELSE @]
                    ELSE IF ConvertsWith(m, a, h)
                      THEN [m.Inst[a] EXCEPT !.ISR = @ \cup flags]
                    ELSE m.Inst[a]]]

\* End of a regular conversion: EOC and EOS are raised; a software-started,
\* not continuous conversion ends there.
HW_RegularConversion(m, h) ==
  [m EXCEPT !.Inst[h].ISR = @ \cup {"EOC", "EOS"},
            !.Inst[h].CR = IF "EXTEN" \notin m.Inst[h].CFGR
                              /\ "CONT" \notin m.Inst[h].CFGR
                             THEN @ \ {"ADSTART"} ELSE @]

\* -------------------------------------------------------------- history
\* What is remembered of the run of the injected group of one instance:
\* whether a start returned OK with no stop returning OK since, the
\* conversions and the injected-complete callbacks since that start, whether
\* nothing but completions happened since, and whether the multimode slave
\* was enabled at the instant this instance armed its trigger; and the
\* number of calibration factors written by HAL_ADCEx_Calibration_SetValue.
NoRun == [started |-> FALSE, conv |-> 0, cb |-> 0, clean |-> FALSE,
          slaveEnabledAtArm |-> FALSE, sets |-> 0]

Min(a, b) == IF a < b THEN a ELSE b

NotClean(H) == [a \in ADCs |-> [H[a] EXCEPT !.clean = FALSE]]

HistStart(h, r) ==
  IF r.ret = "HAL_OK"
    THEN [NotClean(hist) EXCEPT ![h] =
            [started |-> TRUE, conv |-> 0, cb |-> 0, clean |-> TRUE,
             slaveEnabledAtArm |->
                /\ "JADSTART" \notin Inst[h].CR
                /\ "JADSTART" \in r.m.Inst[h].CR
                /\ ADC_MULTI_SLAVE(h) # "NULL"
                /\ "ADEN" \in Inst[ADC_MULTI_SLAVE(h)].CR,
             sets |-> hist[h].sets]]
    ELSE NotClean(hist)

HistStop(h, r) ==
  IF r.ret = "HAL_OK"
    THEN [NotClean(hist) EXCEPT ![h].started = FALSE]
    ELSE NotClean(hist)

\* ------------------------------------------------------------- actions
\* The machine after a call, and the record of the call.
Apply(m) ==
  /\ hadc' = m.hadc
  /\ Inst' = m.Inst
  /\ CCR' = m.CCR
  /\ dma' = m.dma
  /\ UNCHANGED tick

Call(op, h, arg, ret) == [op |-> op, h |-> h, ret |-> ret, arg |-> arg]

InjectedStart(H, F) ==
  \E h \in H, enOk \in F :
    LET r == HAL_ADCEx_InjectedStart(Machine, h, enOk) IN
    /\ Apply(r.m)
    /\ last' = Call("InjectedStart", h, "-", r.ret)
    /\ hist' = HistStart(h, r)

InjectedStart_IT(H, F) ==
  \E h \in H, enOk \in F :
    LET r == HAL_ADCEx_InjectedStart_IT(Machine, h, enOk) IN
    /\ Apply(r.m)
    /\ last' = Call("InjectedStart_IT", h, "-", r.ret)
    /\ hist' = HistStart(h, r)

InjectedStop(H, F) ==
  \E h \in H, stopOk \in F, disOk \in F :
    LET r == HAL_ADCEx_InjectedStop(Machine, h, stopOk, disOk) IN
    /\ Apply(r.m)
    /\ last' = Call("InjectedStop", h, "-", r.ret)
    /\ hist' = HistStop(h, r)

InjectedStop_IT(H, F) ==
  \E h \in H, stopOk \in F, disOk \in F :
    LET r == HAL_ADCEx_InjectedStop_IT(Machine, h, stopOk, disOk) IN
    /\ Apply(r.m)
    /\ last' = Call("InjectedStop_IT", h, "-", r.ret)
    /\ hist' = HistStop(h, r)

RegularStart(H, F) ==
  \E h \in H, enOk \in F :
    LET r == HAL_ADC_Start(Machine, h, enOk) IN
    /\ Apply(r.m)
    /\ last' = Call("HAL_ADC_Start", h, "-", r.ret)
    /\ hist' = NotClean(hist)

RegularStop(H, F) ==
  \E h \in H, stopOk \in F, disOk \in F :
    LET r == HAL_ADCEx_RegularStop(Machine, h, stopOk, disOk) IN
    /\ Apply(r.m)
    /\ last' = Call("RegularStop", h, "-", r.ret)
    /\ hist' = NotClean(hist)

RegularStop_IT(H, F) ==
  \E h \in H, stopOk \in F, disOk \in F :
    LET r == HAL_ADCEx_RegularStop_IT(Machine, h, stopOk, disOk) IN
    /\ Apply(r.m)
    /\ last' = Call("RegularStop_IT", h, "-", r.ret)
    /\ hist' = NotClean(hist)

RegularStop_DMA(H, F) ==
  \E h \in H, stopOk \in F, abortOk \in F, disOk \in F :
    LET r == HAL_ADCEx_RegularStop_DMA(Machine, h, stopOk, abortOk, disOk) IN
    /\ Apply(r.m)
    /\ last' = Call("RegularStop_DMA", h, "-", r.ret)
    /\ hist' = NotClean(hist)

EnableInjectedQueue(H) ==
  \E h \in H :
    LET r == HAL_ADCEx_EnableInjectedQueue(Machine, h) IN
    /\ Apply(r.m)
    /\ last' = Call("EnableInjectedQueue", h, "-", r.ret)
    /\ hist' = NotClean(hist)

DisableInjectedQueue(H) ==
  \E h \in H :
    LET r == HAL_ADCEx_DisableInjectedQueue(Machine, h) IN
    /\ Apply(r.m)
    /\ last' = Call("DisableInjectedQueue", h, "-", r.ret)
    /\ hist' = NotClean(hist)

InjectedConfigChannel(H, Confs) ==
  \E h \in H, pConfigInjected \in Confs :
    LET r == HAL_ADCEx_InjectedConfigChannel(Machine, h, pConfigInjected) IN
    /\ Apply(r.m)
    /\ last' = Call("InjectedConfigChannel", h, pConfigInjected, r.ret)
    /\ hist' = NotClean(hist)

MultiModeConfigChannel(H, Confs) ==
  \E h \in H, pMultimode \in Confs :
    LET r == HAL_ADCEx_MultiModeConfigChannel(Machine, h, pMultimode) IN
    /\ Apply(r.m)
    /\ last' = Call("MultiModeConfigChannel", h, pMultimode, r.ret)
    /\ hist' = NotClean(hist)

MultiModeStart_DMA(H, Lengths, F) ==
  \E h \in H, Length \in Lengths, enOk \in F, enOkSlave \in F,
     nodeOk \in F, dmaOk \in F :
    LET r == HAL_ADCEx_MultiModeStart_DMA(Machine, h, "pData", Length,
                                          enOk, enOkSlave, nodeOk, dmaOk) IN
    /\ Apply(r.m)
    /\ last' = Call("MultiModeStart_DMA", h, Length, r.ret)
    /\ hist' = NotClean(hist)

Calibration_Start(H, F, Modes, Ongoing, Factors) ==
  \E h \in H, SingleDiff \in Modes, disOk \in F, ongoing \in Ongoing,
     factor \in Factors :
    LET r == HAL_ADCEx_Calibration_Start(Machine, h, SingleDiff, disOk,
                                         ongoing, factor) IN
    /\ Apply(r.m)
    /\ last' = Call("Calibration_Start", h,
                    [SingleDiff |-> SingleDiff, ongoing |-> ongoing,
                     disOk |-> disOk], r.ret)
    /\ hist' = NotClean(hist)

Calibration_SetValue(H, Modes, Factors) ==
  \E h \in H, SingleDiff \in Modes, CalibrationFactor \in Factors :
    LET r == HAL_ADCEx_Calibration_SetValue(Machine, h, SingleDiff,
                                            CalibrationFactor) IN
    /\ hist[h].sets < MaxCalSets
    /\ Apply(r.m)
    /\ last' = Call("Calibration_SetValue", h,
                    [SingleDiff |-> SingleDiff,
                     CalibrationFactor |-> CalibrationFactor], r.ret)
    /\ hist' = [NotClean(hist) EXCEPT
                  ![h].sets = IF r.ret = "HAL_OK" THEN @ + 1 ELSE @]

\* The hardware ends the conversion of one injected rank; the conversions
\* since the start are counted up to `Cap`.
InjectedConversionDone(H, Cap) ==
  \E h \in H :
    /\ \/ "JADSTART" \in Inst[h].CR
       \/ "JAUTO" \in Inst[h].CFGR /\ "ADSTART" \in Inst[h].CR
    /\ Apply(HW_InjectedConversion(Machine, h))
    /\ last' = Call("hw", h, "-", "-")
    /\ hist' = [hist EXCEPT ![h].conv = Min(@ + 1, Cap)]

RegularConversionDone(H) ==
  \E h \in H :
    /\ "ADSTART" \in Inst[h].CR
    /\ Apply(HW_RegularConversion(Machine, h))
    /\ last' = Call("hw", h, "-", "-")
    /\ hist' = hist

\* The interrupt of the injected group is served: the handler runs and
\* calls the injected-complete callback.
InjectedInterrupt(H, Cap) ==
  \E h \in H :
    /\ IRQ_InjectedPending(Machine, h)
    /\ Apply(HAL_ADC_IRQHandler_Injected(Machine, h))
    /\ last' = Call("IRQHandler", h, "-", "-")
    /\ hist' = [hist EXCEPT ![h].cb = Min(@ + 1, Cap)]

\* ---------------------------------------------------------- initial state
\* Handle after HAL_ADC_Init: ready, no error, unlocked, no context staged.
HandleInit(init) ==
  [State |-> {"READY"}, ErrorCode |-> {}, Lock |-> "HAL_UNLOCKED",
   InjectionConfig |-> [ChannelCount |-> 0, ContextQueue |-> {}],
   Init |-> init]

OffsetNumbers == {"ADC_OFFSET_1", "ADC_OFFSET_2"}

\* Registers after reset and HAL_ADC_Init: the injected queue is disabled
\* (JQDIS = 1); `cfgr` holds the regular group settings of HAL_ADC_Init.
RegInit(cfgr) ==
  [CR |-> {"ADVREGEN"}, ISR |-> {}, IER |-> {}, CFGR |-> {"JQDIS"} \cup cfgr,
   CFGR2 |-> {}, OR |-> {}, JSQR |-> {}, CALFACT |-> {},
   SMPR |-> [c \in 0..(MaxChannel + 1) |-> "2CYCLES_5"], SMPRPLUS |-> FALSE,
   OFR |-> [n \in OffsetNumbers |-> [en |-> FALSE, ch |-> 0]],
   DIFSEL |-> {}, jseq |-> 0]

HandleInits(EOCs, Scans) ==
  [EOCSelection : EOCs, ScanConvMode : Scans, DMAContinuousRequests : {FALSE}]

DmaInit(Mode, LinkedListQueue) ==
  [State |-> "READY", Mode |-> Mode, LinkedListQueue |-> LinkedListQueue,
   SrcDataWidth |-> "WORD", NodeSrcDataWidth |-> "HALFWORD",
   Src |-> "-", Dst |-> "-", Len |-> 0, Callbacks |-> "-"]

InitWith(Inits, Cfgrs, Dmas) ==
  /\ \E i \in Inits : hadc = [a \in ADCs |-> HandleInit(i)]
  /\ \E c \in Cfgrs : Inst = [a \in ADCs |-> RegInit(c)]
  /\ CCR = [DUAL |-> "INDEPENDENT", DELAY |-> 0, MDMA |-> "DISABLED",
            DMACFG |-> FALSE]
  /\ dma \in Dmas
  /\ tick = 0
  /\ last = [op |-> "init", h |-> "ADC1", ret |-> "-", arg |-> "-"]
  /\ hist = [a \in ADCs |-> NoRun]

\* ------------------------------------------------------ call parameters
\* An injected channel configuration; the parameters not listed are those
\* of a plain single-ended channel.
InjectedConf(channel, rank, nbr, trig, edge, auto, queue) ==
  [InjectedChannel |-> channel, InjectedRank |-> rank,
   InjectedNbrOfConversion |-> nbr,
   ExternalTrigInjecConv |-> trig, ExternalTrigInjecConvEdge |-> edge,
   AutoInjectedConv |-> auto, QueueInjectedContext |-> queue,
   InjectedDiscontinuousConvMode |-> FALSE, InjecOversamplingMode |-> FALSE,
   InjectedSamplingTime |-> "2CYCLES_5", InjectedSingleDiff |-> "SINGLE_ENDED",
   InjectedOffsetNumber |-> "ADC_OFFSET_NONE"]

\* Software-started and externally triggered contexts of `nbr` ranks.
ConfsOf(Nbrs, Trigs, Queues) ==
  { InjectedConf(ch, rank, nbr, trig,
                 IF trig = "ADC_INJECTED_SOFTWARE_START" THEN "NONE" ELSE "RISING",
                 FALSE, q) :
      ch \in 1..MaxChannel, rank \in 1..MaxRank, nbr \in Nbrs, trig \in Trigs,
      q \in Queues }

Triggers == {"ADC_INJECTED_SOFTWARE_START", "ADC_EXTERNALTRIGINJEC_T1_TRGO"}

MultimodeConfs(Modes) ==
  [Mode : Modes, DMAAccessMode : {"DISABLED"}, TwoSamplingDelay : {0}]


\* ------------------------------------------------------ specifications
\* Single-rank contexts: software-started, externally triggered, automatic.
SingleRankConfs ==
  { InjectedConf(1, 1, 1, "ADC_INJECTED_SOFTWARE_START", "NONE", auto, FALSE) :
      auto \in BOOLEAN }
  \cup { InjectedConf(1, 1, 1, "ADC_EXTERNALTRIGINJEC_T1_TRGO", "RISING",
                      FALSE, FALSE) }

\* Fault-free life cycle of the injected group of the instance that can be
\* a multimode slave: every hardware confirmation arrives; the hardware
\* raises the completions, nothing consumes them.
Init ==
  InitWith(HandleInits({"ADC_EOC_SEQ_CONV", "ADC_EOC_SINGLE_CONV"},
                       {"ADC_SCAN_ENABLE"}),
           {{}}, {DmaInit("NORMAL", "HEAD")})

Next ==
  \/ InjectedConfigChannel({"ADC2"}, SingleRankConfs)
  \/ MultiModeConfigChannel({"ADC1"},
                            MultimodeConfs({"INDEPENDENT", "DUAL_INJ_SIMULT"}))
  \/ EnableInjectedQueue({"ADC2"})
  \/ DisableInjectedQueue({"ADC2"})
  \/ InjectedStart({"ADC2"}, {TRUE})
  \/ InjectedStart_IT({"ADC2"}, {TRUE})
  \/ InjectedStop({"ADC2"}, {TRUE})
  \/ InjectedStop_IT({"ADC2"}, {TRUE})
  \/ RegularStart({"ADC2"}, {TRUE})
  \/ InjectedConversionDone({"ADC2"}, 0)
  \/ RegularConversionDone({"ADC2"})

Spec == Init /\ [][Next]_vars


InitConfig ==
  InitWith(HandleInits({"ADC_EOC_SEQ_CONV"}, {"ADC_SCAN_ENABLE", "ADC_SCAN_DISABLE"}),
           {{}}, {DmaInit("NORMAL", "HEAD")})

NextConfig ==
  \/ InjectedConfigChannel({"ADC1"},
       ConfsOf(1..MaxRank, {"ADC_INJECTED_SOFTWARE_START"}, {FALSE}))
  \/ InjectedStart({"ADC1"}, {TRUE})
  \/ InjectedStop({"ADC1"}, {TRUE})

SpecConfig == InitConfig /\ [][NextConfig]_vars

\* The call supplies one rank of a context of several ranks.
MultiRankCall(c) ==
  /\ c.op = "InjectedConfigChannel"
  /\ c.ret = "HAL_OK"
  /\ hadc[c.h].Init.ScanConvMode = "ADC_SCAN_ENABLE"
  /\ c.arg.InjectedNbrOfConversion >= 2

\* C2: for a context of N ranks (N >= 2) supplied by N calls of
\* HAL_ADCEx_InjectedConfigChannel, JSQR is unchanged by each call that
\* leaves ranks to supply (InjectionConfig.ChannelCount # 0 after it), and
\* the call that brings ChannelCount to 0 writes JSQR with the whole staged
\* context.
C2_JsqrWrittenOnce ==
  [][ MultiRankCall(last)' =>
        LET h == last'.h IN
        IF hadc'[h].InjectionConfig.ChannelCount # 0
          THEN Inst'[h].JSQR = Inst[h].JSQR
          ELSE Inst'[h].JSQR = hadc'[h].InjectionConfig.ContextQueue ]_vars

\* The last call of a context of several ranks has written JSQR: its length
\* field holds the number of ranks, every rank holds a channel.
C2_Witness ==
  /\ MultiRankCall(last)
  /\ hadc[last.h].InjectionConfig.ChannelCount = 0
  /\ Inst[last.h].JSQR \cap ADC_JSQR_JL = Bits(last.arg.InjectedNbrOfConversion - 1)
  /\ \A rank \in 1..last.arg.InjectedNbrOfConversion :
        Inst[last.h].JSQR \cap ADC_JSQR_JSQ(rank) # {}


\* ------------------------------------------------------------ C3, C4
\* Stops of both groups and calibration of one instance, the hardware
\* confirmations of stop and disable arriving or not.
\* (All the specifications below but SpecIT start here: the handles after
\* HAL_ADC_Init with the end-of-sequence selection and scan mode.)
InitReady ==
  InitWith(HandleInits({"ADC_EOC_SEQ_CONV"}, {"ADC_SCAN_ENABLE"}),
           {{}}, {DmaInit("NORMAL", "HEAD")})

NextStop ==
  \/ InjectedConfigChannel({"ADC1"}, SingleRankConfs)
  \/ InjectedStart({"ADC1"}, {TRUE})
  \/ RegularStart({"ADC1"}, {TRUE})
  \/ InjectedStop({"ADC1"}, BOOLEAN)
  \/ InjectedStop_IT({"ADC1"}, BOOLEAN)
  \/ RegularStop({"ADC1"}, BOOLEAN)
  \/ RegularStop_IT({"ADC1"}, BOOLEAN)
  \/ RegularStop_DMA({"ADC1"}, BOOLEAN)
  \/ Calibration_Start({"ADC1"}, BOOLEAN, {"SINGLE_ENDED"}, {0}, {0})
  \/ InjectedConversionDone({"ADC1"}, 0)
  \/ RegularConversionDone({"ADC1"})

SpecStop == InitReady /\ [][NextStop]_vars

InjectedStops == {"InjectedStop", "InjectedStop_IT"}
RegularStops == {"RegularStop", "RegularStop_IT", "RegularStop_DMA"}

\* The step disables the ADC of instance h.
Disables(h) == "ADEN" \in Inst[h].CR /\ "ADEN" \notin Inst'[h].CR

NextCalibration ==
  \/ RegularStart({"ADC1"}, {TRUE})
  \/ RegularStop({"ADC1"}, {TRUE})
  \/ InjectedStart({"ADC1"}, {TRUE})
  \/ InjectedStop({"ADC1"}, {TRUE})
  \/ RegularConversionDone({"ADC1"})
  \/ InjectedConversionDone({"ADC1"}, 0)
  \/ Calibration_Start({"ADC1"}, {TRUE}, SingleDiffs,
                       {0, ADC_CALIBRATION_TIMEOUT - 1, ADC_CALIBRATION_TIMEOUT},
                       HwCalFactors)
  \/ Calibration_SetValue({"ADC1"}, SingleDiffs, {1, 42, ADC_CALFACT_MAX})

SpecCalibration == InitReady /\ [][NextCalibration]_vars

\* The call of HAL_ADCEx_Calibration_Start in `c` on instance h reaches the
\* bound of its wait loop: the disable succeeds, and the hardware reports
\* the calibration ongoing at every test of the loop.
CalibrationTimesOut(c, h) ==
  /\ c.op = "Calibration_Start"
  /\ c.h = h
  /\ ~Locked(Machine, h)
  /\ ADC_Disable(Machine, h, c.arg.disOk).ret = "HAL_OK"
  /\ c.arg.ongoing >= ADC_CALIBRATION_TIMEOUT

\* C4 (as the code has it): when the calibration is still ongoing at the
\* bound of the wait loop, HAL_ADCEx_Calibration_Start returns HAL_ERROR,
\* never HAL_OK; HAL_ADC_STATE_ERROR_INTERNAL is set, BUSY_INTERNAL is
\* clear, READY is left as it was before the call, the lock is released.
C4_TimeoutIsError ==
  [][ \A h \in ADCs :
        CalibrationTimesOut(last', h) =>
          /\ last'.ret = "HAL_ERROR"
          /\ "ERROR_INTERNAL" \in hadc'[h].State
          /\ "BUSY_INTERNAL" \notin hadc'[h].State
          /\ ("READY" \in hadc'[h].State) <=> ("READY" \in hadc[h].State)
          /\ ~Locked(Machine, h)' ]_vars

\* A calibration has timed out on a ready instance: the call returned
\* HAL_ERROR, the calibration is still ongoing, State holds ERROR_INTERNAL
\* and still READY.
C4_Witness ==
  /\ last.op = "Calibration_Start"
  /\ last.ret = "HAL_ERROR"
  /\ last.arg.ongoing >= ADC_CALIBRATION_TIMEOUT
  /\ "ADCAL" \in Inst[last.h].CR
  /\ {"ERROR_INTERNAL", "READY"} \subseteq hadc[last.h].State
  /\ "BUSY_INTERNAL" \notin hadc[last.h].State

\* C4 as stated: the call returns HAL_TIMEOUT and READY is not set.
C4_Original ==
  [][ \A h \in ADCs :
        CalibrationTimesOut(last', h) =>
          /\ last'.ret = "HAL_TIMEOUT"
          /\ "ERROR_INTERNAL" \in hadc'[h].State
          /\ "BUSY_INTERNAL" \notin hadc'[h].State
          /\ "READY" \notin hadc'[h].State ]_vars

\* The instance is enabled and neither group converts.
EnabledAndIdle(h) ==
  /\ "ADEN" \in Inst[h].CR
  /\ Inst[h].CR \cap {"ADSTART", "JADSTART"} = {}

\* C5: when the instance is enabled and neither group converts,
\* HAL_ADCEx_Calibration_SetValue(mode, v) returns HAL_OK and a following
\* HAL_ADCEx_Calibration_GetValue(mode) returns v, for every v in 0..127
\* and each mode; the factor of the other mode is unchanged.
C5_RoundTrip ==
  \A h \in ADCs, SingleDiff \in SingleDiffs, v \in 0..ADC_CALFACT_MAX :
    (EnabledAndIdle(h) /\ ~Locked(Machine, h)) =>
      LET r == HAL_ADCEx_Calibration_SetValue(Machine, h, SingleDiff, v)
          other == CHOOSE o \in SingleDiffs : o # SingleDiff
      IN /\ r.ret = "HAL_OK"
         /\ HAL_ADCEx_Calibration_GetValue(r.m, h, SingleDiff) = v
         /\ HAL_ADCEx_Calibration_GetValue(r.m, h, other) =
              HAL_ADCEx_Calibration_GetValue(Machine, h, other)

\* A factor has been written for the differential mode next to a non-zero
\* single-ended factor, and is read back.
C5_Witness ==
  /\ last.op = "Calibration_SetValue"
  /\ last.ret = "HAL_OK"
  /\ last.arg.SingleDiff = "DIFFERENTIAL_ENDED"
  /\ last.arg.CalibrationFactor = ADC_CALFACT_MAX
  /\ HAL_ADCEx_Calibration_GetValue(Machine, last.h, "DIFFERENTIAL_ENDED")
       = ADC_CALFACT_MAX
  /\ HAL_ADCEx_Calibration_GetValue(Machine, last.h, "SINGLE_ENDED") \notin {0, ADC_CALFACT_MAX}

\* The result of HAL_ADCEx_Calibration_SetValue refused on instance h:
\* error return, State with the configuration error bit, the stored factors
\* and every register as before, the lock released.
SetValueRefused(r, h) ==
  /\ r.ret = "HAL_ERROR"
  /\ r.m.hadc[h].State = hadc[h].State \cup {"ERROR_CONFIG"}
  /\ r.m.Inst = Inst
  /\ ~Locked(r.m, h)

\* C6 (as the code has it): HAL_ADCEx_Calibration_SetValue called while the
\* instance is disabled or while a regular or injected conversion is
\* ongoing returns HAL_ERROR, sets HAL_ADC_STATE_ERROR_CONFIG in State and
\* HAL_ADC_ERROR_INTERNAL in ErrorCode, leaves the stored calibration
\* factors unchanged and releases the lock.
C6_RefusedSetValue ==
  \A h \in ADCs, SingleDiff \in SingleDiffs, v \in 0..ADC_CALFACT_MAX :
    (~EnabledAndIdle(h) /\ ~Locked(Machine, h)) =>
      LET r == HAL_ADCEx_Calibration_SetValue(Machine, h, SingleDiff, v)
      IN /\ SetValueRefused(r, h)
         /\ r.m.hadc[h].ErrorCode = hadc[h].ErrorCode \cup {"INTERNAL"}

\* A write of a factor has been refused while the injected group converts,
\* a non-zero factor being stored.
C6_Witness ==
  /\ last.op = "Calibration_SetValue"
  /\ last.ret = "HAL_ERROR"
  /\ "JADSTART" \in Inst[last.h].CR
  /\ "ERROR_CONFIG" \in hadc[last.h].State
  /\ "INTERNAL" \in hadc[last.h].ErrorCode
  /\ HAL_ADCEx_Calibration_GetValue(Machine, last.h, last.arg.SingleDiff)
       \notin {0, last.arg.CalibrationFactor}
  /\ ~Locked(Machine, last.h)

\* C6 as stated: the error code recorded is the configuration error code.
C6_Original ==
  \A h \in ADCs, SingleDiff \in SingleDiffs, v \in 0..ADC_CALFACT_MAX :
    (~EnabledAndIdle(h) /\ ~Locked(Machine, h)) =>
      LET r == HAL_ADCEx_Calibration_SetValue(Machine, h, SingleDiff, v)
      IN /\ SetValueRefused(r, h)
         /\ "CONFIG" \in r.m.hadc[h].ErrorCode

\* ----------------------------------------------------------------- C7
\* The pair ADC1 (master) and ADC2 (slave), independent or in a multimode
\* configuration, with injected starts and stops of both in any order;
\* every hardware confirmation arrives.
NextMulti ==
  \/ MultiModeConfigChannel({"ADC1"},
                            MultimodeConfs({"INDEPENDENT", "DUAL_INJ_SIMULT",
                                            "DUAL_REG_SIMULT"}))
  \/ InjectedConfigChannel({"ADC1"}, SingleRankConfs)
  \/ InjectedStart(ADCs, {TRUE})
  \/ InjectedStart_IT(ADCs, {TRUE})
  \/ InjectedStop(ADCs, {TRUE})
  \/ InjectedStop_IT(ADCs, {TRUE})
  \/ InjectedConversionDone(ADCs, 0)

SpecMulti == InitReady /\ [][NextMulti]_vars

InjectedStarts == {"InjectedStart", "InjectedStart_IT"}

\* The step is an injected start of instance h in a multimode configuration
\* that includes injected conversions.
MultimodeInjectedStart(h) ==
  /\ last'.op \in InjectedStarts
  /\ last'.h = h
  /\ CCR.DUAL = "DUAL_INJ_SIMULT"

\* C7: in a multimode configuration that includes injected conversions, an
\* injected start of the slave (ADC2) only enables it and never arms a
\* conversion, of the slave or of the master; an injected start of the
\* master (ADC1) that returns HAL_OK arms the conversion (JADSTART, unless
\* the injected group is automatic), and the slave is enabled at the instant
\* the master arms exactly when the slave was started before: a start of
\* the slave after the master does not change that.
C7_SlaveBeforeMaster ==
  [][ /\ MultimodeInjectedStart("ADC2") =>
           /\ Inst'["ADC2"].CR \ Inst["ADC2"].CR \subseteq {"ADEN"}
           /\ Inst'["ADC1"] = Inst["ADC1"]
           /\ hist'["ADC1"].slaveEnabledAtArm = hist["ADC1"].slaveEnabledAtArm
           /\ last'.ret = "HAL_OK" =>
                /\ "ADEN" \in Inst'["ADC2"].CR
                /\ "MULTIMODE_SLAVE" \in hadc'["ADC2"].State
      /\ ( /\ MultimodeInjectedStart("ADC1")
           /\ last'.ret = "HAL_OK"
           /\ "JAUTO" \notin Inst["ADC1"].CFGR ) =>
           /\ "JADSTART" \in Inst'["ADC1"].CR
           /\ hist'["ADC1"].slaveEnabledAtArm <=> hist["ADC2"].started ]_vars

\* The master has armed the joint conversion after the slave was started:
\* the synchronized start.
C7_Witness ==
  /\ last.op \in InjectedStarts
  /\ last.h = "ADC1"
  /\ last.ret = "HAL_OK"
  /\ CCR.DUAL = "DUAL_INJ_SIMULT"
  /\ "JADSTART" \in Inst["ADC1"].CR
  /\ "JADSTART" \notin Inst["ADC2"].CR
  /\ "ADEN" \in Inst["ADC2"].CR
  /\ "MULTIMODE_SLAVE" \in hadc["ADC2"].State
  /\ hist["ADC1"].slaveEnabledAtArm

\* ----------------------------------------------------------------- C8
\* Interrupt-driven runs of a software-started injected context of three
\* ranks, each rank supplied by one call: the hardware ends the conversions
\* one by one and the interrupt handler is served at any of these moments.
InitIT ==
  InitWith(HandleInits({"ADC_EOC_SEQ_CONV", "ADC_EOC_SINGLE_CONV"},
                       {"ADC_SCAN_ENABLE"}),
           {{}}, {DmaInit("NORMAL", "HEAD")})

\* The ranks of a software-started context of three ranks, channel 1 at
\* every rank, with and without queue mode.
ThreeRankConfs ==
  { InjectedConf(1, rank, 3, "ADC_INJECTED_SOFTWARE_START", "NONE", FALSE, q) :
      rank \in 1..3, q \in BOOLEAN }

NextIT ==
  \/ InjectedConfigChannel({"ADC1"}, ThreeRankConfs)
  \/ InjectedStart_IT({"ADC1"}, {TRUE})
  \/ InjectedStop_IT({"ADC1"}, {TRUE})
  \/ InjectedConversionDone({"ADC1"}, MaxConv)
  \/ InjectedInterrupt({"ADC1"}, MaxConv)

SpecIT == InitIT /\ [][NextIT]_vars

\* Instance h runs a committed software-started context of three ranks,
\* started by HAL_ADCEx_InjectedStart_IT, with nothing but conversions and
\* interrupts since.
ThreeRankRun(h) ==
  /\ hist[h].started
  /\ hist[h].clean
  /\ InjectedLength(Inst[h]) = 3
  /\ Inst[h].JSQR \cap ADC_JSQR_JEXTEN = {}
  /\ Inst[h].IER \cap {"JEOC", "JEOS"} # {}

\* The three conversions have ended and no interrupt is left to serve.
ThreeServed(h) ==
  /\ hist[h].conv = 3
  /\ ~IRQ_InjectedPending(Machine, h)

\* C8 (as the code has it): in an interrupt-driven run of a 3-rank
\* software-started injected context, with the end-of-sequence selection
\* (ADC_EOC_SEQ_CONV) the injected-complete callback is invoked exactly
\* once, after the third conversion; with the single-conversion selection
\* it is invoked once per interrupt served, up to three times.  Without
\* queue mode (JQM = 0) the injected busy bit is cleared by the interrupt
\* served after the third conversion and not before; with JQM = 1 it stays.
C8_OneCallbackPerSequence ==
  \A h \in ADCs :
    ThreeRankRun(h) =>
      /\ hist[h].conv <= 3
      /\ hadc[h].Init.EOCSelection = "ADC_EOC_SEQ_CONV" =>
           /\ hist[h].cb <= 1
           /\ hist[h].cb = 1 <=> ThreeServed(h)
      /\ hadc[h].Init.EOCSelection = "ADC_EOC_SINGLE_CONV" =>
           /\ hist[h].cb <= hist[h].conv
           /\ ThreeServed(h) => hist[h].cb >= 1
      /\ "JQM" \notin Inst[h].CFGR =>
           ("INJ_BUSY" \notin hadc[h].State <=> ThreeServed(h))
      /\ "JQM" \in Inst[h].CFGR => "INJ_BUSY" \in hadc[h].State

\* The interrupt after the third conversion has been served: one callback,
\* the busy bit cleared, the instance ready.
C8_Witness ==
  /\ last.op = "IRQHandler"
  /\ ThreeRankRun(last.h)
  /\ ThreeServed(last.h)
  /\ hadc[last.h].Init.EOCSelection = "ADC_EOC_SEQ_CONV"
  /\ hist[last.h].cb = 1
  /\ "INJ_BUSY" \notin hadc[last.h].State
  /\ {"READY", "INJ_EOC"} \subseteq hadc[last.h].State

\* C8 as stated: once the three interrupts are served there has been exactly
\* one callback and the busy bit is clear, and it is not clear before.
C8_Original ==
  \A h \in ADCs :
    ThreeRankRun(h) =>
      /\ ThreeServed(h) => hist[h].cb = 1 /\ "INJ_BUSY" \notin hadc[h].State
      /\ ~ThreeServed(h) => "INJ_BUSY" \in hadc[h].State

\* ------------------------------------------------------------ C9, C10
\* Starts of both groups of the master, by the injected starts, the regular
\* start and the multimode transfer start, with the injected queue enabled
\* or disabled, on an idle or a converting instance.
NextStart ==
  \/ InjectedConfigChannel({"ADC1"}, SingleRankConfs)
  \/ EnableInjectedQueue({"ADC1"})
  \/ DisableInjectedQueue({"ADC1"})
  \/ InjectedStart({"ADC1"}, {TRUE})
  \/ InjectedStart_IT({"ADC1"}, {TRUE})
  \/ InjectedStop_IT({"ADC1"}, {TRUE})
  \/ RegularStart({"ADC1"}, {TRUE})
  \/ RegularStop_DMA({"ADC1"}, {TRUE})
  \/ MultiModeStart_DMA({"ADC1"}, {MaxConv}, {TRUE})
  \/ InjectedConversionDone({"ADC1"}, 0)
  \/ RegularConversionDone({"ADC1"})

SpecStart == InitReady /\ [][NextStart]_vars

\* C9: HAL_ADCEx_InjectedStart and HAL_ADCEx_InjectedStart_IT called while
\* the hardware reports an injected conversion ongoing (JADSTART), and
\* HAL_ADCEx_MultiModeStart_DMA called while it reports a regular conversion
\* ongoing (ADSTART), return HAL_BUSY and change nothing: not the lock, not
\* State, not ErrorCode, not the interrupt enables, not any register.
C9_BusyStartHasNoEffect ==
  \A h \in ADCs, ok \in BOOLEAN :
    /\ "JADSTART" \in Inst[h].CR =>
         /\ HAL_ADCEx_InjectedStart(Machine, h, ok) = Res(Machine, "HAL_BUSY")
         /\ HAL_ADCEx_InjectedStart_IT(Machine, h, ok) = Res(Machine, "HAL_BUSY")
    /\ "ADSTART" \in Inst[h].CR =>
         \A Length \in 0..MaxConv, nodeOk \in BOOLEAN, dmaOk \in BOOLEAN :
           HAL_ADCEx_MultiModeStart_DMA(Machine, h, "pData", Length,
                                        ok, ok, nodeOk, dmaOk)
             = Res(Machine, "HAL_BUSY")

\* HAL_ADCEx_InjectedStart_IT has been refused on an instance both groups
\* of which convert: no interrupt of the injected group is enabled and the
\* handle is not locked.
C9_Witness ==
  /\ last.op = "InjectedStart_IT"
  /\ last.ret = "HAL_BUSY"
  /\ {"ADSTART", "JADSTART"} \subseteq Inst[last.h].CR
  /\ Inst[last.h].IER \cap {"JEOC", "JEOS", "JQOVF"} = {}
  /\ ~Locked(Machine, last.h)

\* C10: HAL_ADCEx_InjectedStart and HAL_ADCEx_InjectedStart_IT called with the
\* injected queue not disabled (JQDIS = 0) and no trigger enabled in the
\* context register (JEXTEN = 0), no injected conversion being ongoing
\* (the case of C9, tested first), return HAL_ERROR and set
\* HAL_ADC_STATE_ERROR_CONFIG; nothing else changes: the ADC is not enabled,
\* INJ_BUSY is not set and no conversion is armed.
C10_QueueErrorStart ==
  \A h \in ADCs, ok \in BOOLEAN :
    ( /\ "JQDIS" \notin Inst[h].CFGR
      /\ Inst[h].JSQR \cap ADC_JSQR_JEXTEN = {}
      /\ "JADSTART" \notin Inst[h].CR ) =>
      LET refused == Res([Machine EXCEPT !.hadc[h].State = @ \cup {"ERROR_CONFIG"}],
                         "HAL_ERROR")
      IN /\ HAL_ADCEx_InjectedStart(Machine, h, ok) = refused
         /\ HAL_ADCEx_InjectedStart_IT(Machine, h, ok) = refused

\* An injected start has been refused for the queue: the instance is still
\* disabled, not busy, nothing armed.
C10_Witness ==
  /\ last.op \in InjectedStarts
  /\ last.ret = "HAL_ERROR"
  /\ "JQDIS" \notin Inst[last.h].CFGR
  /\ Inst[last.h].JSQR \cap ADC_JSQR_JEXTEN = {}
  /\ "ERROR_CONFIG" \in hadc[last.h].State
  /\ "ADEN" \notin Inst[last.h].CR
  /\ "JADSTART" \notin Inst[last.h].CR
  /\ "INJ_BUSY" \notin hadc[last.h].State

\* ---------------------------------------------------------------- C11
\* Injected starts of the slave (polling) and of the master (interrupt),
\* the confirmation of the enable arriving or not, in independent and
\* multimode configurations, with software-started, externally triggered
\* and automatic contexts on the slave, its regular group started or not.
NextEnable ==
  \/ MultiModeConfigChannel({"ADC1"},
                            MultimodeConfs({"INDEPENDENT", "DUAL_INJ_SIMULT",
                                            "DUAL_REG_SIMULT"}))
  \/ InjectedConfigChannel({"ADC2"}, SingleRankConfs)
  \/ InjectedStart({"ADC2"}, BOOLEAN)
  \/ InjectedStart_IT({"ADC1"}, BOOLEAN)
  \/ InjectedStop(ADCs, {TRUE})
  \/ RegularStart({"ADC2"}, {TRUE})
  \/ InjectedConversionDone({"ADC2"}, 0)

SpecEnable == InitReady /\ [][NextEnable]_vars

\* The instance is the slave of a multimode configuration that includes
\* injected conversions.
InjectedMultimodeSlave(h) ==
  /\ h = "ADC2"
  /\ CCR.DUAL \notin {"INDEPENDENT", "DUAL_REG_SIMULT", "DUAL_REG_INTERL"}

\* What C11 says of the result r of an injected start of instance h, the
\* confirmation of the enable arriving (ok) or not.
StartedAfterEnable(r, h, ok) ==
  LET enabled == "ADEN" \in Inst[h].CR \/ ok
      armed == "JADSTART" \in r.m.Inst[h].CR
  IN /\ r.ret = "HAL_OK" <=> enabled
     /\ enabled =>
          /\ "ADEN" \in r.m.Inst[h].CR
          /\ "INJ_BUSY" \in r.m.hadc[h].State
          /\ r.m.hadc[h].State \cap {"READY", "INJ_EOC"} = {}
          /\ r.m.Inst[h].ISR \cap {"JEOC", "JEOS"} = {}
          /\ armed <=> ("JAUTO" \notin Inst[h].CFGR /\ ~InjectedMultimodeSlave(h))
     /\ ~enabled =>
          /\ r.ret = "HAL_TIMEOUT"
          /\ ~armed
          /\ "INJ_BUSY" \notin r.m.hadc[h].State

\* C11: an injected start (HAL_ADCEx_InjectedStart / _IT) that passes the
\* conversion-ongoing, queue and lock tests returns HAL_OK exactly when
\* ADC_Enable returned HAL_OK; it then leaves INJ_BUSY set, READY and INJ_EOC
\* cleared, the JEOC and JEOS flags cleared, and JADSTART set if and only if
\* JAUTO is not configured and the instance is not an injected-multimode
\* slave.  If ADC_Enable fails the start returns its error, arms nothing and
\* leaves INJ_BUSY unset.
C11_StartOnlyAfterEnable ==
  \A h \in ADCs, ok \in BOOLEAN :
    ( /\ "JADSTART" \notin Inst[h].CR
      /\ "JQDIS" \in Inst[h].CFGR \/ Inst[h].JSQR \cap ADC_JSQR_JEXTEN # {}
      /\ ~Locked(Machine, h) ) =>
      /\ StartedAfterEnable(HAL_ADCEx_InjectedStart(Machine, h, ok), h, ok)
      /\ StartedAfterEnable(HAL_ADCEx_InjectedStart_IT(Machine, h, ok), h, ok)

\* The slave of a pair in multimode injected has been started: enabled,
\* busy, not armed.
C11_Witness ==
  /\ last.op \in InjectedStarts
  /\ last.h = "ADC2"
  /\ last.ret = "HAL_OK"
  /\ InjectedMultimodeSlave("ADC2")
  /\ {"INJ_BUSY", "MULTIMODE_SLAVE"} \subseteq hadc["ADC2"].State
  /\ "READY" \notin hadc["ADC2"].State
  /\ "ADEN" \in Inst["ADC2"].CR
  /\ "JADSTART" \notin Inst["ADC2"].CR

\* ---------------------------------------------------------------- C12
\* C12: a stop that returns HAL_OK disables the ADC only if the hardware
\* reports no conversion ongoing on the other group.  After an injected
\* stop (HAL_ADCEx_InjectedStop / _IT) with a regular conversion ongoing the
\* ADC is still enabled, INJ_BUSY is cleared and REG_BUSY is as before;
\* after a regular stop (HAL_ADCEx_RegularStop / _IT / _DMA) with an injected
\* conversion ongoing the ADC is still enabled and REG_BUSY is the only
\* bit of State cleared; with the other group idle the ADC is disabled,
\* both busy bits are cleared and READY is set.
C12_StopKeepsOtherGroup ==
  \A h \in ADCs, stopOk \in BOOLEAN, abortOk \in BOOLEAN, disOk \in BOOLEAN :
    LET Off(r) == /\ "ADEN" \notin r.m.Inst[h].CR
                  /\ r.m.hadc[h].State \cap {"REG_BUSY", "INJ_BUSY"} = {}
                  /\ "READY" \in r.m.hadc[h].State
        Inj(r) == r.ret = "HAL_OK" =>
                    IF "ADSTART" \in Inst[h].CR
                      THEN /\ {"ADEN", "ADSTART"} \subseteq r.m.Inst[h].CR
                           /\ "INJ_BUSY" \notin r.m.hadc[h].State
                           /\ "REG_BUSY" \in r.m.hadc[h].State
                                <=> "REG_BUSY" \in hadc[h].State
                      ELSE Off(r)
        Reg(r) == r.ret = "HAL_OK" =>
                    IF "JADSTART" \in Inst[h].CR
                      THEN /\ {"ADEN", "JADSTART"} \subseteq r.m.Inst[h].CR
                           /\ "REG_BUSY" \notin r.m.hadc[h].State
                           /\ hadc[h].State \ {"REG_BUSY"} \subseteq r.m.hadc[h].State
                      ELSE Off(r)
    IN ~Locked(Machine, h) =>
         /\ Inj(HAL_ADCEx_InjectedStop(Machine, h, stopOk, disOk))
         /\ Inj(HAL_ADCEx_InjectedStop_IT(Machine, h, stopOk, disOk))
         /\ Reg(HAL_ADCEx_RegularStop(Machine, h, stopOk, disOk))
         /\ Reg(HAL_ADCEx_RegularStop_IT(Machine, h, stopOk, disOk))
         /\ Reg(HAL_ADCEx_RegularStop_DMA(Machine, h, stopOk, abortOk, disOk))

\* The regular group has been stopped while an externally triggered
\* injected conversion is ongoing: the ADC is enabled, the injected group
\* busy, the regular group not.
C12_Witness ==
  /\ last.op \in RegularStops
  /\ last.ret = "HAL_OK"
  /\ {"ADEN", "JADSTART"} \subseteq Inst[last.h].CR
  /\ "ADSTART" \notin Inst[last.h].CR
  /\ "INJ_BUSY" \in hadc[last.h].State
  /\ hadc[last.h].State \cap {"REG_BUSY", "READY"} = {}
  /\ "EOC" \in Inst[last.h].ISR

\* ----------------------------------------------------------- C13, C14
\* Multimode configuration of the pair, with every combination of mode,
\* DMA access mode and delay, while either instance is disabled or enabled,
\* with a conversion of either group started, stopped or ongoing.
PairConfs ==
  [Mode : {"INDEPENDENT", "DUAL_INJ_SIMULT"},
   DMAAccessMode : {"DISABLED", "12_10_BITS"}, TwoSamplingDelay : {0, 1}]

NextPair ==
  \/ MultiModeConfigChannel({"ADC1"}, PairConfs)
  \/ InjectedStart(ADCs, {TRUE})
  \/ InjectedStop(ADCs, {TRUE})
  \/ RegularStart(ADCs, {TRUE})
  \/ RegularStop(ADCs, {TRUE})

SpecPair == InitReady /\ [][NextPair]_vars

\* C13: HAL_ADCEx_MultiModeConfigChannel rejects the whole call on any state
\* violation: when the requested dual mode or delay cannot be written
\* because an instance of the pair is enabled, or the DMA fields cannot be
\* written because an instance converts, it returns HAL_ERROR with
\* HAL_ADC_STATE_ERROR_CONFIG set and changes no field of CCR.
C13_RejectsWholeCall ==
  \A p \in PairConfs :
    LET r == HAL_ADCEx_MultiModeConfigChannel(Machine, "ADC1", p)
        delay == IF p.Mode = "INDEPENDENT" THEN 0 ELSE p.TwoSamplingDelay
        violation ==
          \/ /\ \E a \in ADCs : "ADEN" \in Inst[a].CR
             /\ <<p.Mode, delay>> # <<CCR.DUAL, CCR.DELAY>>
          \/ \E a \in ADCs : "ADSTART" \in Inst[a].CR
    IN (violation /\ ~Locked(Machine, "ADC1")) =>
         /\ r.ret = "HAL_ERROR"
         /\ "ERROR_CONFIG" \in r.m.hadc["ADC1"].State
         /\ r.m.CCR = CCR

\* C14 (as the code has it): the dual mode and the delay of CCR change only
\* in a state where neither instance of the pair is enabled, and the
\* multimode DMA fields (MDMA, DMACFG) change only in a state where neither
\* instance has a regular conversion ongoing (ADSTART); an injected
\* conversion may be ongoing.
C14_PairingFields ==
  [][ /\ <<CCR.DUAL, CCR.DELAY>>' # <<CCR.DUAL, CCR.DELAY>> =>
           \A a \in ADCs : "ADEN" \notin Inst[a].CR
      /\ <<CCR.MDMA, CCR.DMACFG>>' # <<CCR.MDMA, CCR.DMACFG>> =>
           \A a \in ADCs : "ADSTART" \notin Inst[a].CR ]_vars

\* The DMA access mode has been written while the slave is enabled and the
\* master disabled; the dual mode requested by the same call has not.
C14_Witness ==
  /\ last.op = "MultiModeConfigChannel"
  /\ last.ret = "HAL_OK"
  /\ "ADEN" \in Inst["ADC2"].CR
  /\ "ADEN" \notin Inst["ADC1"].CR
  /\ last.arg.DMAAccessMode = "12_10_BITS"
  /\ CCR.MDMA = "12_10_BITS"
  /\ last.arg.Mode = "DUAL_INJ_SIMULT"
  /\ CCR.DUAL = "INDEPENDENT"

\* C14 as stated: the DMA fields change only where neither instance is
\* mid-conversion, on the regular or on the injected group.
C14_Original ==
  [][ /\ <<CCR.DUAL, CCR.DELAY>>' # <<CCR.DUAL, CCR.DELAY>> =>
           \A a \in ADCs : "ADEN" \notin Inst[a].CR
      /\ <<CCR.MDMA, CCR.DMACFG>>' # <<CCR.MDMA, CCR.DMACFG>> =>
           \A a \in ADCs : Inst[a].CR \cap {"ADSTART", "JADSTART"} = {} ]_vars

\* ------------------------------------ multimode stop (lines 1038-1154)
\* The exit of the bounded wait of HAL_ADCEx_MultiModeStop_DMA when master
\* or slave still converts after ADC_STOP_CONVERSION_TIMEOUT (1087-1103).
\* Variant that returns without releasing the lock.
MultiModeStop_Timeout_Locked(m, h) ==
  Res([m EXCEPT !.hadc[h].State = @ \cup {"ERROR_INTERNAL"}], "HAL_ERROR")
MultiModeStop_Timeout(m, h) ==
  Res(HAL_UNLOCK([m EXCEPT !.hadc[h].State = @ \cup {"ERROR_INTERNAL"}], h),
      "HAL_ERROR")

\* HAL_ADCEx_MultiModeStop_DMA. `idle` tells whether the slave's regular
\* conversion ends within the bounded wait; the other inputs are the
\* outcomes of the hardware confirmations and of the transfer abort. The
\* result also names the sub-steps the call attempted and those that failed.
HAL_ADCEx_MultiModeStop_DMA(m, h, stopOk, idle, abortOk, disOk, disOkSlave) ==
  LET Sub(r, steps, failed) ==
        [m |-> r.m, ret |-> r.ret, steps |-> steps, failed |-> failed]
  IN
  IF Locked(m, h) THEN Sub(Res(m, "HAL_BUSY"), {}, {})
  ELSE
    LET c == ADC_ConversionStop(HAL_LOCK(m, h), h,
                                "ADC_REGULAR_INJECTED_GROUP", stopOk)
        slave == ADC_MULTI_SLAVE(h)
    IN
    IF c.ret # "HAL_OK"
      THEN Sub(Res(HAL_UNLOCK(c.m, h), c.ret), {"stop"}, {"stop"})
    ELSE IF slave = "NULL"
      THEN Sub(Res(HAL_UNLOCK([c.m EXCEPT !.hadc[h].State =
                                             @ \cup {"ERROR_CONFIG"}], h),
                   "HAL_ERROR"), {"stop"}, {})
    ELSE IF (c.m.Inst[h].CR \cup c.m.Inst[slave].CR) \cap {"ADSTART"} # {}
            /\ ~idle
      THEN Sub(MultiModeStop_Timeout(c.m, h), {"stop", "wait"}, {"wait"})
    ELSE
      LET m1 == [c.m EXCEPT !.Inst[slave].CR = @ \ {"ADSTART"}]
          a == HAL_DMA_Abort(m1, abortOk)
          m2 == [a.m EXCEPT
                   !.hadc[h].State =
                      IF a.ret = "HAL_ERROR" THEN @ \cup {"ERROR_DMA"} ELSE @,
                   !.Inst[h].IER = @ \ {"OVR"}]
          \* abort passed: the slave is disabled first, then the master
          ds == ADC_Disable_Tmp(m2, slave, disOkSlave)
          dm == ADC_Disable(ds.m, h, disOk)
          \* abort failed: master first, then slave, statuses dropped
          em == ADC_Disable(m2, h, disOk)
          es == ADC_Disable_Tmp(em.m, slave, disOkSlave)
          m3 == IF a.ret = "HAL_OK" THEN dm.m ELSE es.m
          failed == (IF a.ret # "HAL_OK" THEN {"abort"} ELSE {})
                    \cup (IF (IF a.ret = "HAL_OK" THEN dm.ret ELSE em.ret)
                             # "HAL_OK" THEN {"disable_master"} ELSE {})
                    \cup (IF (IF a.ret = "HAL_OK" THEN ds.ret ELSE es.ret)
                             # "HAL_OK" THEN {"disable_slave"} ELSE {})
      IN
      Sub(Res(HAL_UNLOCK([m3 EXCEPT !.hadc[h].State =
                            (@ \ {"REG_BUSY", "INJ_BUSY"}) \cup {"READY"}], h),
              a.ret),
          {"stop", "wait", "abort", "disable_master", "disable_slave"},
          failed)

MultiModeStop_DMA(H, F) ==
  \E h \in H, stopOk \in F, idle \in F, abortOk \in F, disOk \in F,
     disOkSlave \in F :
    LET r == HAL_ADCEx_MultiModeStop_DMA(Machine, h, stopOk, idle, abortOk,
                                         disOk, disOkSlave) IN
    /\ Apply(r.m)
    /\ last' = Call("MultiModeStop_DMA", h,
                    [steps |-> r.steps, failed |-> r.failed], r.ret)
    /\ hist' = NotClean(hist)

\* ------------------------------------------- joint operations of the pair
InitJoint ==
  InitWith(HandleInits({"ADC_EOC_SEQ_CONV"}, {"ADC_SCAN_ENABLE"}), {{}},
           {DmaInit("NORMAL", "HEAD"), DmaInit("LINKEDLIST", "HEAD"),
            DmaInit("LINKEDLIST", "NULL")})

NextJoint ==
  \/ MultiModeStart_DMA(ADCs, {MaxConv}, BOOLEAN)
  \/ MultiModeStop_DMA(ADCs, BOOLEAN)
  \/ RegularStart({"ADC2"}, {TRUE})
  \/ Calibration_Start({"ADC1"}, {TRUE}, {"SINGLE_ENDED"},
                       {ADC_CALIBRATION_TIMEOUT}, {1})

SpecJoint == InitJoint /\ [][NextJoint]_vars

\* C15: a multimode stop on the master attempts the transfer abort and the
\* disable of master and of slave on every path, whichever sub-step failed.
C15_BestEffortStop ==
  (last.op = "MultiModeStop_DMA" /\ last.h = "ADC1")
    => {"abort", "disable_master", "disable_slave"} \subseteq last.arg.steps

\* C16: a multimode stop returns HAL_OK only if no sub-step failed, and a
\* failed sub-step is recorded: ERROR_DMA for the abort, ERROR_INTERNAL for
\* the others.
C16_FirstErrorSurfaced ==
  (last.op = "MultiModeStop_DMA" /\ last.h = "ADC1")
    => /\ last.ret = "HAL_OK" => last.arg.failed = {}
       /\ "abort" \in last.arg.failed => "ERROR_DMA" \in hadc["ADC1"].State
       /\ last.arg.failed \ {"abort"} # {}
            => "ERROR_INTERNAL" \in hadc["ADC1"].State

\* ------------------------------------- poll of the injected group (476-603)
\* State after a poll that timed out (line 516).
\* Variant that also gives the group up.
InjectedPoll_TimeoutState_Idle(State) ==
  (State \ {"INJ_BUSY"}) \cup {"TIMEOUT", "READY"}
InjectedPoll_TimeoutState(State) == State \cup {"TIMEOUT"}

\* HAL_ADCEx_InjectedPollForConversion. Timeout = -1 stands for HAL_MAX_DELAY
\* (0xFFFFFFFF). `arrive` tells when the hardware ends the conversion that
\* raises the polled flag during the call: "waiting" (while the loop spins,
\* before the timeout elapsed), "recheck" (between the last test of the loop
\* and the re-check that follows the elapsed timeout) or "never". With
\* Timeout = 0 the first pass goes to the re-check at once, so a flag raised
\* during the call is seen there. The result counts the tests of the flag.
HAL_ADCEx_InjectedPollForConversion(m, h, Timeout, arrive) ==
  LET HAL_MAX_DELAY == -1
      tmp_flag_end == IF m.hadc[h].Init.EOCSelection = "ADC_EOC_SEQ_CONV"
                        THEN "JEOS" ELSE "JEOC"
      hw == IF "JADSTART" \in m.Inst[h].CR
              THEN HW_InjectedConversion(m, h) ELSE m
      raised == arrive # "never" /\ tmp_flag_end \in hw.Inst[h].ISR
      Poll(r, reads) == [m |-> r.m, ret |-> r.ret, reads |-> reads]
      Done(n) ==
        LET tmp_cfgr == CompletionCFGR(n, h)
            n1 == InjectedCompletion(n, h)
        IN Res([n1 EXCEPT !.Inst[h].ISR =
                  IF tmp_flag_end = "JEOS"
                    THEN IF "AUTDLY" \notin tmp_cfgr
                           THEN @ \ {"JEOC", "JEOS"} ELSE @
                    ELSE @ \ {"JEOC"}], "HAL_OK")
  IN
  IF tmp_flag_end \in m.Inst[h].ISR THEN Poll(Done(m), 1)
  ELSE IF Timeout = HAL_MAX_DELAY
    THEN IF raised THEN Poll(Done(hw), 2) ELSE Poll(Res(m, "blocked"), 1)
  ELSE IF raised
    THEN IF arrive = "waiting" /\ Timeout # 0
           THEN Poll(Done(hw), 2) ELSE Poll(Done(hw), 3)
  ELSE Poll(Res(HAL_UNLOCK([m EXCEPT !.hadc[h].State =
                                        InjectedPoll_TimeoutState(@)], h),
                "HAL_TIMEOUT"), 2)

InjectedPollForConversion(H, Timeouts, Arrivals) ==
  \E h \in H, Timeout \in Timeouts, arrive \in Arrivals :
    LET r == HAL_ADCEx_InjectedPollForConversion(Machine, h, Timeout, arrive)
    IN
    /\ r.ret # "blocked"
    /\ Apply(r.m)
    /\ last' = Call("InjectedPollForConversion", h,
                    [Timeout |-> Timeout, arrive |-> arrive,
                     reads |-> r.reads], r.ret)
    /\ hist' = NotClean(hist)

\* A second context inside HAL_ADCEx_InjectedStop: it has taken the lock
\* (line 429) and is preempted; when it resumes the call runs to its end.
Preempted(H) ==
  \E h \in H :
    /\ ~Locked(Machine, h)
    /\ Apply(HAL_LOCK(Machine, h))
    /\ last' = Call("preempted", h, "-", "-")
    /\ hist' = NotClean(hist)

Resumed(H, F) ==
  \E h \in H, stopOk \in F, disOk \in F :
    LET r == HAL_ADCEx_InjectedStop(HAL_UNLOCK(Machine, h), h, stopOk, disOk)
    IN
    /\ Locked(Machine, h)
    /\ Apply(r.m)
    /\ last' = Call("resumed", h, "-", r.ret)
    /\ hist' = HistStop(h, r)

NextPoll ==
  \/ InjectedStart({"ADC1"}, {TRUE})
  \/ InjectedPollForConversion({"ADC1"}, {0, 1, -1},
                               {"waiting", "recheck", "never"})
  \/ InjectedConversionDone({"ADC1"}, 0)
  \/ InjectedStop({"ADC1"}, {TRUE})
  \/ RegularStart({"ADC1"}, {TRUE})
  \/ EnableInjectedQueue({"ADC1"})
  \/ DisableInjectedQueue({"ADC1"})
  \/ Preempted({"ADC1"})
  \/ Resumed({"ADC1"}, {TRUE})

SpecPoll == InitIT /\ [][NextPoll]_vars

\* C19: while another context holds the lock of an instance and no
\* conversion is armed or running on it, no operation changes the State,
\* the ErrorCode, the injected-context staging fields or the registers of
\* that instance.
C19_MutationOnlyUnderLock ==
  \A h \in ADCs :
    LET Same(r) == /\ r.m.hadc[h].State = hadc[h].State
                   /\ r.m.hadc[h].ErrorCode = hadc[h].ErrorCode
                   /\ r.m.hadc[h].InjectionConfig = hadc[h].InjectionConfig
                   /\ r.m.Inst[h] = Inst[h]
    IN
    (Locked(Machine, h) /\ Inst[h].CR \cap {"ADSTART", "JADSTART"} = {})
      => /\ \A ok \in BOOLEAN :
              /\ Same(HAL_ADCEx_InjectedStart(Machine, h, ok))
              /\ Same(HAL_ADCEx_InjectedStart_IT(Machine, h, ok))
              /\ Same(HAL_ADCEx_InjectedStop(Machine, h, ok, ok))
         /\ \A c \in SingleRankConfs :
              Same(HAL_ADCEx_InjectedConfigChannel(Machine, h, c))
         /\ \A t \in {0, 1}, a \in {"waiting", "recheck", "never"} :
              Same(HAL_ADCEx_InjectedPollForConversion(Machine, h, t, a))
         /\ Same(HAL_ADCEx_EnableInjectedQueue(Machine, h))
         /\ Same(HAL_ADCEx_DisableInjectedQueue(Machine, h))

\* C20: a poll with a finite Timeout returns HAL_TIMEOUT, with
\* HAL_ADC_STATE_TIMEOUT set and INJ_BUSY, INJ_EOC and READY as they were,
\* only if the polled flag (JEOS when the end of sequence is selected, else
\* JEOC) is clear at the first test and still clear at the re-check; with
\* the flag set at the first test or raised before the re-check it returns
\* HAL_OK. With Timeout = 0 the call does not wait: a clear flag is tested
\* a second time, at the re-check, before HAL_TIMEOUT is returned.
C20_PollTimeout ==
  \A h \in {"ADC1"}, t \in {0, 1}, a \in {"waiting", "recheck", "never"} :
    LET r == HAL_ADCEx_InjectedPollForConversion(Machine, h, t, a)
        flag == IF hadc[h].Init.EOCSelection = "ADC_EOC_SEQ_CONV"
                  THEN "JEOS" ELSE "JEOC"
        first == flag \in Inst[h].ISR
        later == /\ a # "never"
                 /\ "JADSTART" \in Inst[h].CR
                 /\ flag \in HW_InjectedConversion(Machine, h).Inst[h].ISR
        kept == {"INJ_BUSY", "INJ_EOC", "READY"}
    IN
    /\ r.ret \in {"HAL_OK", "HAL_TIMEOUT"}
    /\ r.ret = "HAL_TIMEOUT"
         => /\ ~first /\ ~later
            /\ "TIMEOUT" \in r.m.hadc[h].State
            /\ r.m.hadc[h].State \cap kept = hadc[h].State \cap kept
            /\ r.reads = 2
    /\ (first \/ later) => r.ret = "HAL_OK"
    /\ first => r.reads = 1
    /\ (t = 0 /\ ~first) => r.reads = IF later THEN 3 ELSE 2

C20_Witness ==
  /\ last.op = "InjectedPollForConversion"
  /\ last.ret = "HAL_TIMEOUT"
  /\ last.arg.Timeout = 0
  /\ last.arg.reads = 2
  /\ {"TIMEOUT", "INJ_BUSY"} \subseteq hadc[last.h].State
  /\ "JADSTART" \in Inst[last.h].CR

\* C20 as stated: the same, with the flag tested exactly once when
\* Timeout = 0.
C20_Original ==
  \A h \in {"ADC1"}, a \in {"waiting", "recheck", "never"} :
    LET r == HAL_ADCEx_InjectedPollForConversion(Machine, h, 0, a)
        flag == IF hadc[h].Init.EOCSelection = "ADC_EOC_SEQ_CONV"
                  THEN "JEOS" ELSE "JEOC"
        kept == {"INJ_BUSY", "INJ_EOC", "READY"}
    IN
    /\ r.reads = 1
    /\ r.ret = "HAL_TIMEOUT"
         => /\ flag \notin Inst[h].ISR
            /\ "TIMEOUT" \in r.m.hadc[h].State
            /\ r.m.hadc[h].State \cap kept = hadc[h].State \cap kept
    /\ flag \in Inst[h].ISR => r.ret = "HAL_OK"

\* C18: every operation that takes the lock has released it when it
\* returns, whatever the exit path: between two calls every handle is
\* unlocked, and from every such state every call of a locking operation,
\* for every outcome of the hardware and of the transfer engine, returns
\* with the handle unlocked.
C18_LockReleased ==
  \A h \in ADCs :
    LET Free(r) == ~Locked(r.m, h) IN
    /\ ~Locked(Machine, h)
    /\ \A a \in BOOLEAN, b \in BOOLEAN, c \in BOOLEAN :
         /\ Free(HAL_ADCEx_InjectedStart(Machine, h, a))
         /\ Free(HAL_ADCEx_InjectedStart_IT(Machine, h, a))
         /\ Free(HAL_ADCEx_InjectedStop(Machine, h, a, b))
         /\ Free(HAL_ADCEx_InjectedStop_IT(Machine, h, a, b))
         /\ Free(HAL_ADCEx_RegularStop(Machine, h, a, b))
         /\ Free(HAL_ADCEx_RegularStop_IT(Machine, h, a, b))
         /\ Free(HAL_ADCEx_RegularStop_DMA(Machine, h, a, b, c))
         /\ Free(HAL_ADCEx_Calibration_Start(Machine, h, "SINGLE_ENDED", a,
                   IF b THEN 0 ELSE ADC_CALIBRATION_TIMEOUT, 1))
         /\ Free(HAL_ADCEx_Calibration_SetValue(Machine, h, "SINGLE_ENDED", 1))
    /\ \A p \in PairConfs :
         Free(HAL_ADCEx_MultiModeConfigChannel(Machine, h, p))
    /\ \A p \in SingleRankConfs :
         Free(HAL_ADCEx_InjectedConfigChannel(Machine, h, p))

\* A multimode stop that gave up on the bounded wait.
C18_Witness ==
  /\ last.op = "MultiModeStop_DMA"
  /\ last.h = "ADC1"
  /\ last.ret = "HAL_ERROR"
  /\ last.arg.failed = {"wait"}
  /\ "ADSTART" \in Inst["ADC2"].CR
  /\ "ERROR_INTERNAL" \in hadc["ADC1"].State
  /\ ~Locked(Machine, "ADC1")

\* ------------------------------------------ power saving (lines 2381-2437)
\* Both are conditioned to the ADC being disabled and take no lock. Setting
\* DEEPPWD clears ADVREGEN (note of lines 2404-2407).
HAL_ADCEx_DisableVoltageRegulator(m, h) ==
  IF "ADEN" \notin m.Inst[h].CR
    THEN Res([m EXCEPT !.Inst[h].CR = @ \ {"ADVREGEN"}], "HAL_OK")
    ELSE Res(m, "HAL_ERROR")

HAL_ADCEx_EnterADCDeepPowerDownMode(m, h) ==
  IF "ADEN" \notin m.Inst[h].CR
    THEN Res([m EXCEPT !.Inst[h].CR = (@ \ {"ADVREGEN"}) \cup {"DEEPPWD"}],
             "HAL_OK")
    ELSE Res(m, "HAL_ERROR")

InitCompletion ==
  InitWith(HandleInits({"ADC_EOC_SEQ_CONV", "ADC_EOC_SINGLE_CONV"},
                       {"ADC_SCAN_ENABLE"}),
           {{}, {"CONT"}}, {DmaInit("NORMAL", "HEAD")})

NextCompletion ==
  \/ InjectedConfigChannel({"ADC1"},
       SingleRankConfs \cup
       { InjectedConf(1, 1, 1, "ADC_INJECTED_SOFTWARE_START", "NONE",
                      FALSE, TRUE),
         InjectedConf(1, 1, 2, "ADC_INJECTED_SOFTWARE_START", "NONE",
                      FALSE, FALSE),
         InjectedConf(1, 2, 2, "ADC_INJECTED_SOFTWARE_START", "NONE",
                      FALSE, FALSE) })
  \/ InjectedStart({"ADC1"}, {TRUE})
  \/ RegularStart({"ADC1"}, {TRUE})
  \/ InjectedConversionDone({"ADC1"}, 0)
  \/ InjectedPollForConversion({"ADC1"}, {1}, {"waiting", "never"})

SpecCompletion == InitCompletion /\ [][NextCompletion]_vars

C22_TriggerResolution ==
  \A h \in {"ADC1"}, t \in {0, 1}, a \in {"waiting", "never"} :
    LET r == HAL_ADCEx_InjectedPollForConversion(Machine, h, t, a)
        expected == \/ Inst[h].JSQR \cap ADC_JSQR_JEXTEN # {}
                    \/ /\ "JAUTO" \in Inst[h].CFGR
                       /\ Inst[h].CFGR \cap {"CONT", "EXTEN"} # {}
    IN
    (r.ret = "HAL_OK" /\ expected)
      => /\ "INJ_BUSY" \in hadc[h].State => "INJ_BUSY" \in r.m.hadc[h].State
         /\ "READY" \notin hadc[h].State => "READY" \notin r.m.hadc[h].State

\* C23: a configuration request that combines auto-injection with injected
\* discontinuous mode, auto-injection with regular discontinuous mode, or
\* injected oversampling with a result offset returns HAL_ERROR with
\* HAL_ADC_STATE_ERROR_CONFIG set, at every call.
C23_ExclusiveOptions ==
  \A h \in {"ADC1"}, auto \in BOOLEAN, disc \in BOOLEAN, ovs \in BOOLEAN,
     off \in {"ADC_OFFSET_NONE", "ADC_OFFSET_1"} :
    LET cfg == [InjectedConf(1, 1, 1, "ADC_INJECTED_SOFTWARE_START", "NONE",
                             auto, FALSE)
                  EXCEPT !.InjectedDiscontinuousConvMode = disc,
                         !.InjecOversamplingMode = ovs,
                         !.InjectedOffsetNumber = off]
        r == HAL_ADCEx_InjectedConfigChannel(Machine, h, cfg)
        conflict == \/ auto /\ disc
                    \/ auto /\ "DISCEN" \in Inst[h].CFGR
                    \/ ovs /\ off # "ADC_OFFSET_NONE"
    IN
    conflict => /\ r.ret = "HAL_ERROR"
                /\ "ERROR_CONFIG" \in r.m.hadc[h].State

\* C24: JQDIS changes only while neither group converts.
\* HAL_ADCEx_EnableInjectedQueue clears JQDIS and INJ_JQOVF and
\* HAL_ADCEx_DisableInjectedQueue sets JQDIS (the queue mode JQM is cleared
\* with it), returning HAL_OK, only then; otherwise they return HAL_ERROR
\* and leave the registers and the handle as they were. No other step
\* changes JQDIS.
C24_QueueSwitch ==
  /\ [](\A h \in ADCs :
          LET en == HAL_ADCEx_EnableInjectedQueue(Machine, h)
              dis == HAL_ADCEx_DisableInjectedQueue(Machine, h)
              idle == Inst[h].CR \cap {"ADSTART", "JADSTART"} = {}
          IN
          /\ idle => /\ en.ret = "HAL_OK" /\ dis.ret = "HAL_OK"
                     /\ en.m = [Machine EXCEPT
                                  !.Inst[h].CFGR = @ \ {"JQDIS"},
                                  !.hadc[h].State = @ \ {"INJ_JQOVF"}]
                     /\ dis.m = [Machine EXCEPT
                                   !.Inst[h].CFGR = (@ \ {"JQM"}) \cup {"JQDIS"}]
          /\ ~idle => /\ en.ret = "HAL_ERROR" /\ dis.ret = "HAL_ERROR"
                      /\ en.m = Machine /\ dis.m = Machine)
  /\ [][\A h \in ADCs :
          ("JQDIS" \in Inst[h].CFGR) # ("JQDIS" \in Inst'[h].CFGR)
            => /\ last'.op \in {"EnableInjectedQueue", "DisableInjectedQueue"}
               /\ last'.h = h /\ last'.ret = "HAL_OK"
               /\ Inst[h].CR \cap {"ADSTART", "JADSTART"} = {}]_vars

C24_Witness ==
  /\ last.op = "DisableInjectedQueue"
  /\ last.ret = "HAL_ERROR"
  /\ "JADSTART" \in Inst[last.h].CR
  /\ "JQDIS" \notin Inst[last.h].CFGR

\* C25: HAL_ADCEx_Calibration_Start arms the calibration only once the
\* disable of the same call has confirmed the ADC disabled. When that
\* disable fails, no register is written, HAL_ADC_STATE_ERROR_INTERNAL is
\* set, the other State bits stay as they were and the status is a failure.
\* When the call returns HAL_OK, READY is set and BUSY_INTERNAL, REG_BUSY
\* and INJ_BUSY are clear.
C25_CalibrationAfterDisable ==
  \A h \in {"ADC1"}, SingleDiff \in SingleDiffs, disOk \in BOOLEAN,
     ongoing \in {0, ADC_CALIBRATION_TIMEOUT} :
    LET r == HAL_ADCEx_Calibration_Start(Machine, h, SingleDiff, disOk,
                                         ongoing, 9)
        disabled == \/ "ADEN" \notin Inst[h].CR
                    \/ Inst[h].CR \cap {"ADSTART", "JADSTART"} = {} /\ disOk
        before == hadc[h].State
        after == r.m.hadc[h].State
    IN
    /\ disabled => "ADEN" \notin r.m.Inst[h].CR
    /\ ~disabled => /\ r.m.Inst = Inst
                    /\ after = before \cup {"ERROR_INTERNAL"}
                    /\ r.ret \in {"HAL_ERROR", "HAL_BUSY", "HAL_TIMEOUT"}
    /\ r.ret = "HAL_OK"
         => /\ disabled
            /\ "READY" \in after
            /\ after \cap {"BUSY_INTERNAL", "REG_BUSY", "INJ_BUSY"} = {}
    /\ r.m.Inst[h].CR \cap {"ADCAL"} # Inst[h].CR \cap {"ADCAL"} => disabled
    /\ r.m.Inst[h].CALFACT # Inst[h].CALFACT => disabled

\* A calibration refused while the regular group converts.
C25_Witness ==
  /\ last.op = "Calibration_Start"
  /\ last.ret # "HAL_OK"
  /\ {"ADEN", "ADSTART"} \subseteq Inst[last.h].CR
  /\ "ADCAL" \notin Inst[last.h].CR
  /\ {"ERROR_INTERNAL", "REG_BUSY"} \subseteq hadc[last.h].State

\* C26: HAL_ADCEx_MultiModeStart_DMA on the master enables the master, then
\* the derived slave, then starts the transfer, then arms the shared regular
\* trigger: the slave is touched only once the master is enabled, the
\* transfer is started and ADSTART set only if both enables returned HAL_OK,
\* the trigger is armed whenever the transfer start was attempted, and
\* nothing of the slave changes but the ADEN bit of its CR.
C26_StartOrder ==
  \A enOk \in BOOLEAN, enOkSlave \in BOOLEAN, nodeOk \in BOOLEAN,
     dmaOk \in BOOLEAN :
    LET r == HAL_ADCEx_MultiModeStart_DMA(Machine, "ADC1", "pData", MaxConv,
                                          enOk, enOkSlave, nodeOk, dmaOk)
        up1 == "ADEN" \in Inst["ADC1"].CR \/ enOk
        up2 == "ADEN" \in Inst["ADC2"].CR \/ enOkSlave
        entered == "ADSTART" \notin Inst["ADC1"].CR /\ ~Locked(Machine, "ADC1")
        attempted ==
          dma.Mode = "LINKEDLIST" => (dma.LinkedListQueue = "HEAD" /\ nodeOk)
    IN
    /\ r.m.hadc["ADC2"] = hadc["ADC2"]
    /\ r.m.Inst["ADC2"] =
         IF entered /\ up1
           THEN [Inst["ADC2"] EXCEPT !.CR = @ \cup {"ADEN"}]
           ELSE Inst["ADC2"]
    /\ r.m.dma.State # dma.State => (entered /\ up1 /\ up2)
    /\ "ADSTART" \in r.m.Inst["ADC1"].CR
         => ("ADSTART" \in Inst["ADC1"].CR \/ (up1 /\ up2 /\ attempted))
    /\ (entered /\ up1 /\ up2 /\ attempted)
         => /\ "ADSTART" \in r.m.Inst["ADC1"].CR
            /\ (dma.State = "READY" /\ dmaOk) => r.m.dma.State = "BUSY"

C26_Witness ==
  /\ last.op = "MultiModeStart_DMA"
  /\ last.h = "ADC1"
  /\ last.ret = "HAL_OK"
  /\ dma.State = "BUSY"
  /\ "ADSTART" \in Inst["ADC1"].CR
  /\ \A a \in ADCs : "ADEN" \in Inst[a].CR

\* C27: whatever interrupts earlier HAL_ADCEx_InjectedStart_IT calls left
\* enabled, and whichever end-of-conversion selection the handle holds at
\* the call, a call that returns HAL_OK leaves exactly one of the JEOC and
\* JEOS interrupts enabled, the one of the selection, and the JQOVF
\* interrupt enabled if JQM is set; a HAL_ADCEx_InjectedStop_IT that returns
\* HAL_OK leaves none of the three enabled.
C27_InterruptSelection ==
  \A h \in ADCs, ok \in BOOLEAN, disOk \in BOOLEAN,
     sel \in {"ADC_EOC_SEQ_CONV", "ADC_EOC_SINGLE_CONV"} :
    LET s == HAL_ADCEx_InjectedStart_IT(
               [Machine EXCEPT !.hadc[h].Init.EOCSelection = sel], h, ok)
        t == HAL_ADCEx_InjectedStop_IT(Machine, h, ok, disOk)
    IN
    /\ s.ret = "HAL_OK" =>
         /\ s.m.Inst[h].IER \cap {"JEOC", "JEOS"} =
              {IF sel = "ADC_EOC_SEQ_CONV" THEN "JEOS" ELSE "JEOC"}
         /\ "JQM" \in Inst[h].CFGR => "JQOVF" \in s.m.Inst[h].IER
    /\ t.ret = "HAL_OK" =>
         t.m.Inst[h].IER \cap {"JEOC", "JEOS", "JQOVF"} = {}

C27_Witness ==
  /\ last.op = "InjectedStart_IT"
  /\ last.ret = "HAL_OK"
  /\ hadc[last.h].Init.EOCSelection = "ADC_EOC_SINGLE_CONV"
  /\ "JQM" \in Inst[last.h].CFGR
  /\ Inst[last.h].IER \cap {"JEOC", "JEOS", "JQOVF"} = {"JEOC", "JQOVF"}

\* ------------------------------------- regular multimode stop with DMA
\* HAL_ADCEx_RegularMultiModeStop_DMA. `idle` tells whether the slave's
\* regular conversion ends within the bounded wait; the other inputs are the
\* outcomes of the hardware confirmations and of the transfer abort.
HAL_ADCEx_RegularMultiModeStop_DMA(m, h, stopOk, idle, abortOk, disOk, disOkSlave) ==
  IF Locked(m, h) THEN Res(m, "HAL_BUSY")
  ELSE
    LET c == ADC_ConversionStop(HAL_LOCK(m, h), h, "ADC_REGULAR_GROUP", stopOk)
        slave == ADC_MULTI_SLAVE(h)
        c1 == [c.m EXCEPT !.hadc[h].State = @ \ {"REG_BUSY"}]
    IN
    IF c.ret # "HAL_OK" THEN Res(HAL_UNLOCK(c.m, h), c.ret)
    ELSE IF slave = "NULL"
      THEN Res(HAL_UNLOCK([c1 EXCEPT !.hadc[h].State =
                                        @ \cup {"ERROR_CONFIG"}], h),
               "HAL_ERROR")
    ELSE IF (c1.Inst[h].CR \cup c1.Inst[slave].CR) \cap {"ADSTART"} # {}
            /\ ~idle
      THEN Res(HAL_UNLOCK([c1 EXCEPT !.hadc[h].State =
                                        @ \cup {"ERROR_INTERNAL"}], h),
               "HAL_ERROR")
    ELSE
      LET m1 == [c1 EXCEPT !.Inst[slave].CR = @ \ {"ADSTART"}]
          a == HAL_DMA_Abort(m1, abortOk)
          m2 == [a.m EXCEPT
                   !.hadc[h].State =
                      IF a.ret # "HAL_OK" THEN @ \cup {"ERROR_DMA"} ELSE @,
                   !.Inst[h].IER = @ \ {"OVR"}]
          dm == IF "JADSTART" \notin m2.Inst[h].CR
                  THEN ADC_Disable(m2, h, disOk)
                  ELSE Res(m2, a.ret)
          ds == IF /\ "JADSTART" \notin m2.Inst[h].CR
                   /\ dm.ret = "HAL_OK"
                   /\ "JADSTART" \notin dm.m.Inst[slave].CR
                  THEN ADC_Disable_Tmp(dm.m, slave, disOkSlave)
                  ELSE dm
      IN
      IF a.ret # "HAL_OK" THEN Res(HAL_UNLOCK(m2, h), a.ret)
      ELSE IF ds.ret = "HAL_OK"
        THEN Res(HAL_UNLOCK([ds.m EXCEPT !.hadc[h].State =
                               (@ \ {"INJ_BUSY"}) \cup {"READY"}], h),
                 "HAL_OK")
        ELSE Res(HAL_UNLOCK(ds.m, h), ds.ret)

RegularMultiModeStop_DMA(H, F) ==
  \E h \in H, stopOk \in F, idle \in F, abortOk \in F, disOk \in F,
     disOkSlave \in F :
    LET r == HAL_ADCEx_RegularMultiModeStop_DMA(Machine, h, stopOk, idle,
                                                abortOk, disOk, disOkSlave) IN
    /\ Apply(r.m)
    /\ last' = Call("RegularMultiModeStop_DMA", h, "-", r.ret)
    /\ hist' = NotClean(hist)

NextRegular ==
  \/ MultiModeStart_DMA({"ADC1"}, {MaxConv}, {TRUE})
  \/ RegularMultiModeStop_DMA(ADCs, BOOLEAN)
  \/ InjectedStart(ADCs, {TRUE})
  \/ InjectedStop(ADCs, {TRUE})
  \/ RegularStart({"ADC2"}, {TRUE})

SpecRegular == InitReady /\ [][NextRegular]_vars

\* C28: in HAL_ADCEx_RegularMultiModeStop_DMA an instance of the pair whose
\* injected conversion is still ongoing after the regular stop and the
\* transfer abort is not disabled, and then the State of the master keeps
\* INJ_BUSY and does not gain READY; INJ_BUSY is cleared or READY set only
\* when master and slave are both disabled at the return.
C28_InjectedKeepsState ==
  \A stopOk \in BOOLEAN, idle \in BOOLEAN, abortOk \in BOOLEAN,
     disOk \in BOOLEAN, disOkSlave \in BOOLEAN :
    LET r == HAL_ADCEx_RegularMultiModeStop_DMA(Machine, "ADC1", stopOk, idle,
                                                abortOk, disOk, disOkSlave)
        before == hadc["ADC1"].State
        after == r.m.hadc["ADC1"].State
        ongoing(a) == "JADSTART" \in Inst[a].CR
    IN
    /\ \A a \in ADCs :
         ongoing(a) => (r.m.Inst[a].CR \cap {"ADEN"} = Inst[a].CR \cap {"ADEN"})
    /\ (\E a \in ADCs : ongoing(a))
         => /\ "INJ_BUSY" \in before => "INJ_BUSY" \in after
            /\ "READY" \in after => "READY" \in before
    /\ (("INJ_BUSY" \in before \ after) \/ ("READY" \in after \ before))
         => \A a \in ADCs : "ADEN" \notin r.m.Inst[a].CR

\* C29: while a context of several ranks is being built
\* (InjectionConfig.ChannelCount # 0), a HAL_ADCEx_InjectedConfigChannel call
\* leaves in the staged ContextQueue, at its rank, exactly its own channel,
\* whatever an earlier call of the same context staged at that rank; the
\* fields of the other ranks and the trigger and length fields keep their
\* staged value, and a call that commits writes that channel to JSQR.
C29_RankOverwritten ==
  \A cfg \in ConfsOf(2..MaxRank, {"ADC_INJECTED_SOFTWARE_START"}, {FALSE}) :
    LET r == HAL_ADCEx_InjectedConfigChannel(Machine, "ADC1", cfg)
        before == hadc["ADC1"].InjectionConfig
        after == r.m.hadc["ADC1"].InjectionConfig
        field == ADC_JSQR_JSQ(cfg.InjectedRank)
        channel == ADC_JSQR_RK(cfg.InjectedChannel, cfg.InjectedRank)
    IN
    (/\ hadc["ADC1"].Init.ScanConvMode = "ADC_SCAN_ENABLE"
     /\ before.ChannelCount # 0
     /\ r.ret = "HAL_OK")
      => /\ after.ContextQueue \cap field = channel
         /\ after.ContextQueue \ field = before.ContextQueue \ field
         /\ after.ChannelCount = 0
              => r.m.Inst["ADC1"].JSQR \cap field = channel

\* C30: HAL_ADCEx_InjectedConfigChannel writes JQM and JDISCEN only while no
\* injected conversion is ongoing; JAUTO, oversampling, sampling time and
\* offset only while neither group converts; the single/differential mode
\* of the channel only while the ADC is disabled. A field whose constraint
\* does not hold keeps its value and the deferral raises no error: the call
\* returns HAL_OK, except that with both groups idle auto-injection asked
\* together with an external injected trigger returns HAL_ERROR with
\* ERROR_CONFIG set and JAUTO unchanged.
C30_StateConditioned ==
  \A cfg \in
       { [InjectedConf(1, 1, 1, t,
                       IF t = "ADC_INJECTED_SOFTWARE_START" THEN "NONE"
                                                            ELSE "RISING",
                       a, q)
            EXCEPT !.InjectedDiscontinuousConvMode = d,
                   !.InjecOversamplingMode = o,
                   !.InjectedSamplingTime =
                      IF o THEN "6CYCLES_5" ELSE "2CYCLES_5",
                   !.InjectedSingleDiff = sd,
                   !.InjectedOffsetNumber =
                      IF d THEN "ADC_OFFSET_1" ELSE "ADC_OFFSET_NONE"] :
           t \in Triggers, a \in BOOLEAN, q \in BOOLEAN, d \in BOOLEAN,
           o \in BOOLEAN,
           sd \in {"SINGLE_ENDED", "DIFFERENTIAL_ENDED"} } :
    LET r == HAL_ADCEx_InjectedConfigChannel(Machine, "ADC1", cfg)
        I == Inst["ADC1"]
        J == r.m.Inst["ADC1"]
        inj == "JADSTART" \in I.CR
        reg == "ADSTART" \in I.CR
        rejected == /\ ~inj /\ ~reg /\ cfg.AutoInjectedConv
                    /\ cfg.ExternalTrigInjecConv # "ADC_INJECTED_SOFTWARE_START"
    IN
    ~Locked(Machine, "ADC1") =>
      /\ IF inj
           THEN J.CFGR \cap {"JQM", "JDISCEN"} = I.CFGR \cap {"JQM", "JDISCEN"}
           ELSE ("JQM" \in J.CFGR) = cfg.QueueInjectedContext
      /\ (inj \/ reg) =>
           /\ J.CFGR \cap {"JAUTO"} = I.CFGR \cap {"JAUTO"}
           /\ J.CFGR2 = I.CFGR2
           /\ J.SMPR = I.SMPR
           /\ J.SMPRPLUS = I.SMPRPLUS
           /\ J.OFR = I.OFR
      /\ "ADEN" \in I.CR => J.DIFSEL = I.DIFSEL
      /\ r.ret = IF rejected THEN "HAL_ERROR" ELSE "HAL_OK"
      /\ rejected =>
           /\ "ERROR_CONFIG" \in r.m.hadc["ADC1"].State
           /\ J.CFGR \cap {"JAUTO"} = I.CFGR \cap {"JAUTO"}

\* The call asked for auto-injection while the regular group converts: JAUTO
\* is left as it was and the call returns HAL_OK.
C30_Witness ==
  /\ last.op = "InjectedConfigChannel"
  /\ last.ret = "HAL_OK"
  /\ last.arg.AutoInjectedConv
  /\ "ADSTART" \in Inst[last.h].CR
  /\ "JAUTO" \notin Inst[last.h].CFGR

\* C30 as stated: whenever the constraint of a field does not hold, the
\* field keeps its value and the call returns HAL_OK.
C30_Original ==
  \A cfg \in
       { [InjectedConf(1, 1, 1, t,
                       IF t = "ADC_INJECTED_SOFTWARE_START" THEN "NONE"
                                                            ELSE "RISING",
                       a, FALSE)
            EXCEPT !.InjectedSingleDiff = sd] :
           t \in Triggers, a \in BOOLEAN,
           sd \in {"SINGLE_ENDED", "DIFFERENTIAL_ENDED"} } :
    LET r == HAL_ADCEx_InjectedConfigChannel(Machine, "ADC1", cfg)
        I == Inst["ADC1"]
        J == r.m.Inst["ADC1"]
        inj == "JADSTART" \in I.CR
        reg == "ADSTART" \in I.CR
    IN
    ~Locked(Machine, "ADC1") =>
      /\ inj =>
           /\ J.CFGR \cap {"JQM", "JDISCEN"} = I.CFGR \cap {"JQM", "JDISCEN"}
           /\ r.ret = "HAL_OK"
      /\ (inj \/ reg) =>
           /\ J.CFGR \cap {"JAUTO"} = I.CFGR \cap {"JAUTO"}
           /\ J.CFGR2 = I.CFGR2
           /\ J.SMPR = I.SMPR
           /\ J.SMPRPLUS = I.SMPRPLUS
           /\ J.OFR = I.OFR
           /\ r.ret = "HAL_OK"
      /\ "ADEN" \in I.CR =>
           /\ J.DIFSEL = I.DIFSEL
           /\ r.ret = "HAL_OK"

\* ------------------------------------------- order of the steps of a start
\* The steps of a HAL_ADCEx_InjectedStart (it = FALSE) or
\* HAL_ADCEx_InjectedStart_IT (it = TRUE) that returns HAL_OK, in the order
\* of the statements of the function.
InjectedStart_Steps(m, h, it) ==
  <<"lock", "enable", "errorcode", "state", "flags", "unlock">>
  \o (IF it THEN <<"it_enable">> ELSE <<>>)
  \o (IF InjectedStart_ArmsItself(h, m.CCR.DUAL)
        THEN IF "JAUTO" \notin m.Inst[h].CFGR THEN <<"arm">> ELSE <<>>
        ELSE <<"state">>)

\* The steps of a HAL_ADCEx_MultiModeStart_DMA that reaches the start of the
\* transfer, in the order of the statements of the function.
MultiModeStart_DMA_Steps ==
  <<"lock", "enable", "enable_slave", "state", "errorcode", "callbacks",
    "flags", "unlock", "it_enable", "transfer", "arm">>

\* C31: in a start that returns HAL_OK (HAL_ADCEx_InjectedStart,
\* HAL_ADCEx_InjectedStart_IT, HAL_ADCEx_MultiModeStart_DMA) the release of
\* the lock is the last step of the call, and when the call arms the
\* hardware trigger the arming is the step right before the release: no
\* interrupt enable, transfer start or State write follows the release.
C31_ReleaseAfterArming ==
  \A h \in ADCs, ok \in BOOLEAN, it \in BOOLEAN :
    LET Ordered(s) ==
          \A i \in DOMAIN s :
            s[i] = "unlock" =>
              /\ i = Len(s)
              /\ (\E j \in DOMAIN s : s[j] = "arm") => s[i - 1] = "arm"
        r == InjectedStartBody(Machine, h, it, ok)
        d == HAL_ADCEx_MultiModeStart_DMA(Machine, h, "pData", MaxConv,
                                          ok, ok, ok, ok)
    IN
    /\ r.ret = "HAL_OK" => Ordered(InjectedStart_Steps(Machine, h, it))
    /\ d.ret = "HAL_OK" => Ordered(MultiModeStart_DMA_Steps)

Wait_Expired_Zero(op, elapsed, index, Timeout) ==
  CASE op = "Calibration_Start" -> index + 1 >= ADC_CALIBRATION_TIMEOUT
    [] op = "InjectedPollForConversion" -> Timeout = 0
    [] OTHER -> elapsed > ADC_STOP_CONVERSION_TIMEOUT
Wait_Expired(op, elapsed, index, Timeout) ==
  CASE op = "Calibration_Start" -> index + 1 >= ADC_CALIBRATION_TIMEOUT
    [] op = "InjectedPollForConversion" ->
         Timeout # -1 /\ (elapsed > Timeout \/ Timeout = 0)
    [] OTHER -> elapsed > ADC_STOP_CONVERSION_TIMEOUT

\* The call runs up to its wait loop.
Wait_Enter(H, Ops, Timeouts) ==
  \E h \in H, op \in Ops, Timeout \in Timeouts :
    LET m == Machine
        stop(group) == ADC_ConversionStop(HAL_LOCK(m, h), h, group, TRUE).m
        bound == IF op = "InjectedPollForConversion"
                   THEN Timeout ELSE ADC_STOP_CONVERSION_TIMEOUT
    IN
    /\ last.ret # "waiting"
    /\ op = "InjectedPollForConversion" \/ ~Locked(m, h)
    /\ op = "Calibration_Start" => ADC_Disable(m, h, TRUE).ret = "HAL_OK"
    /\ op # "Calibration_Start" => tick + bound < MaxTick
    /\ Apply(CASE op = "Calibration_Start" ->
                    [HAL_LOCK(ADC_Disable(m, h, TRUE).m, h) EXCEPT
                       !.hadc[h].State =
                          (@ \ {"REG_BUSY", "INJ_BUSY"}) \cup {"BUSY_INTERNAL"},
                       !.Inst[h].CR = @ \cup {"ADCAL"}]
               [] op = "MultiModeStop_DMA" -> stop("ADC_REGULAR_INJECTED_GROUP")
               [] op = "RegularMultiModeStop_DMA" ->
                    [stop("ADC_REGULAR_GROUP") EXCEPT
                       !.hadc[h].State = @ \ {"REG_BUSY"}]
               [] OTHER -> m)
    /\ last' = Call(op, h,
                    [tickstart |-> tick, index |-> 0,
                     Timeout |-> IF op = "InjectedPollForConversion"
                                   THEN Timeout ELSE 0],
                    "waiting")
    /\ hist' = hist

\* One test of the loop: the call leaves the loop when what it waits for has
\* happened, returns on its bound, or goes round once more.
Wait_Test(H) ==
  \E h \in H :
    LET op == last.op
        m == HAL_UNLOCK(Machine, h)
        tmp_flag_end == IF hadc[h].Init.EOCSelection = "ADC_EOC_SEQ_CONV"
                          THEN "JEOS" ELSE "JEOC"
        pending ==
          CASE op = "Calibration_Start" -> "ADCAL" \in Inst[h].CR
            [] op = "InjectedPollForConversion" -> tmp_flag_end \notin Inst[h].ISR
            [] OTHER -> \E a \in ADCs : "ADSTART" \in Inst[a].CR
        expired == Wait_Expired(op, tick - last.arg.tickstart, last.arg.index,
                                last.arg.Timeout)
        \* the whole call, with the outcome of the wait
        r == CASE op = "Calibration_Start" ->
                    HAL_ADCEx_Calibration_Start(
                      [m EXCEPT !.Inst[h].CR = @ \ {"ADCAL"}], h, "SINGLE_ENDED",
                      TRUE, IF pending THEN ADC_CALIBRATION_TIMEOUT ELSE 0, 1)
               [] op = "MultiModeStop_DMA" ->
                    HAL_ADCEx_MultiModeStop_DMA(m, h, TRUE, ~pending, TRUE,
                                                TRUE, TRUE)
               [] op = "RegularMultiModeStop_DMA" ->
                    HAL_ADCEx_RegularMultiModeStop_DMA(m, h, TRUE, ~pending,
                                                       TRUE, TRUE, TRUE)
               [] OTHER ->
                    HAL_ADCEx_InjectedPollForConversion(Machine, h, 0, "never")
    IN
    /\ last.ret = "waiting"
    /\ last.h = h
    /\ IF pending /\ ~expired
         THEN /\ UNCHANGED <<hadc, Inst, CCR, dma, tick>>
              /\ last' = IF op = "Calibration_Start"
                           THEN [last EXCEPT !.arg.index = @ + 1]
                           ELSE last
         ELSE /\ Apply(r.m)
              /\ last' = Call(op, h, "-", r.ret)
    /\ hist' = hist

\* The tick interrupt; the ticks that fall outside a wait are not counted.
Tick ==
  /\ last.ret = "waiting"
  /\ tick < MaxTick
  /\ tick' = tick + 1
  /\ UNCHANGED <<hadc, Inst, CCR, dma, last, hist>>

\* The hardware ends what it runs: the calibration, a regular conversion, an
\* injected conversion.
Hardware(H) ==
  \E h \in H, event \in {"ADCAL", "ADSTART", "JADSTART"} :
    /\ event \in Inst[h].CR
    /\ Apply(CASE event = "ADCAL" ->
                    [Machine EXCEPT !.Inst[h].CR = @ \ {"ADCAL"}]
               [] event = "ADSTART" -> HW_RegularConversion(Machine, h)
               [] OTHER -> HW_InjectedConversion(Machine, h))
    /\ UNCHANGED <<last, hist>>

\* The conversions are started before the first wait.
NextWait ==
  \/ Wait_Enter({"ADC1"},
                {"Calibration_Start", "MultiModeStop_DMA",
                 "RegularMultiModeStop_DMA", "InjectedPollForConversion"},
                {0, 1, -1})
  \/ Wait_Test({"ADC1"})
  \/ Tick
  \/ Hardware(ADCs)
  \/ last.op = "init" /\ InjectedStart({"ADC1"}, {TRUE})
  \/ last.op \in {"init", "InjectedStart"} /\ RegularStart({"ADC2"}, {TRUE})

SpecWait == InitReady /\ [][NextWait]_vars

\* The clock advances and the waiting call keeps testing; the hardware owes
\* nothing.
SpecWaitFair == SpecWait /\ WF_vars(Tick) /\ WF_vars(Wait_Test({"ADC1"}))

\* C33: under an advancing clock every wait returns: the calibration wait
\* within ADC_CALIBRATION_TIMEOUT loop tests, the wait of the two multimode
\* stops and the poll with a finite Timeout once their bound has elapsed; a
\* poll with Timeout = HAL_MAX_DELAY returns once the flag it polls is up.
C33_WaitsTerminate ==
  /\ [](last.ret = "waiting" => last.arg.index < ADC_CALIBRATION_TIMEOUT)
  /\ (last.ret = "waiting"
      /\ ~(last.op = "InjectedPollForConversion" /\ last.arg.Timeout = -1))
       ~> (last.ret # "waiting")
  /\ (/\ last.ret = "waiting"
      /\ last.op = "InjectedPollForConversion"
      /\ (IF hadc[last.h].Init.EOCSelection = "ADC_EOC_SEQ_CONV"
            THEN "JEOS" ELSE "JEOC") \in Inst[last.h].ISR)
       ~> (last.ret # "waiting")

\* A multimode stop that left its wait on the bound, the slave converting.
C33_Witness ==
  /\ last.op = "MultiModeStop_DMA"
  /\ last.ret = "HAL_ERROR"
  /\ tick > ADC_STOP_CONVERSION_TIMEOUT
  /\ "ADSTART" \in Inst["ADC2"].CR
  /\ "ERROR_INTERNAL" \in hadc["ADC1"].State


C35_ReleaseOnlyOwnLock ==
  LET m == Machine
      h == "ADC1"
      Held(r) == Locked(r.m, h)
  IN
  Locked(m, h) =>
    /\ \A Timeout \in {0, 1}, arrive \in {"waiting", "never"} :
         Held(HAL_ADCEx_InjectedPollForConversion(m, h, Timeout, arrive))
    /\ \A a \in BOOLEAN, b \in BOOLEAN :
         /\ Held(HAL_ADCEx_InjectedStart(m, h, a))
         /\ Held(HAL_ADCEx_InjectedStart_IT(m, h, a))
         /\ Held(HAL_ADCEx_InjectedStop(m, h, a, b))
         /\ Held(HAL_ADCEx_InjectedStop_IT(m, h, a, b))
         /\ Held(HAL_ADCEx_RegularStop(m, h, a, b))
         /\ Held(HAL_ADCEx_RegularStop_IT(m, h, a, b))
         /\ Held(HAL_ADCEx_RegularStop_DMA(m, h, a, a, b))
         /\ Held(HAL_ADCEx_MultiModeStart_DMA(m, h, "pData", MaxConv,
                                              a, a, TRUE, b))
         /\ Held(HAL_ADCEx_MultiModeStop_DMA(m, h, a, b, a, a, a))
         /\ Held(HAL_ADCEx_RegularMultiModeStop_DMA(m, h, a, b, a, a, a))
         /\ Held(HAL_ADCEx_Calibration_Start(m, h, "SINGLE_ENDED", a, 0, 1))
    /\ Held(HAL_ADCEx_Calibration_SetValue(m, h, "SINGLE_ENDED", 1))
    /\ \A cfg \in SingleRankConfs :
         Held(HAL_ADCEx_InjectedConfigChannel(m, h, cfg))

\* ------------------------------- configuration call that returns an error
\* C36: a HAL_ADCEx_InjectedConfigChannel call that returns an error
\* (auto-injection asked with an external injected trigger) leaves JSQR, the
\* staged context and the count of remaining ranks as they were.
C36_ErrorLeavesContext ==
  \A rank \in 1..2, nbr \in 1..2, auto \in BOOLEAN :
    LET cfg == InjectedConf(1, rank, nbr, "ADC_EXTERNALTRIGINJEC_T1_TRGO",
                            "RISING", auto, FALSE)
        r == HAL_ADCEx_InjectedConfigChannel(Machine, "ADC1", cfg)
    IN r.ret = "HAL_ERROR"
         => /\ r.m.Inst["ADC1"].JSQR = Inst["ADC1"].JSQR
            /\ r.m.hadc["ADC1"].InjectionConfig = hadc["ADC1"].InjectionConfig

\* --------------------------------- multimode start that returns a failure
\* C37: when HAL_ADCEx_MultiModeStart_DMA returns anything but HAL_OK, the
\* call has not armed the regular conversion, has not set REG_BUSY nor
\* cleared READY in the master State, and has not enabled the overrun
\* interrupt.
C37_FailedStartArmsNothing ==
  \A enOk \in BOOLEAN, enOkSlave \in BOOLEAN, nodeOk \in BOOLEAN,
     dmaOk \in BOOLEAN :
    LET h == "ADC1"
        r == HAL_ADCEx_MultiModeStart_DMA(Machine, h, "pData", MaxConv,
                                          enOk, enOkSlave, nodeOk, dmaOk)
    IN r.ret # "HAL_OK"
         => /\ "ADSTART" \in r.m.Inst[h].CR => "ADSTART" \in Inst[h].CR
            /\ "REG_BUSY" \in r.m.hadc[h].State => "REG_BUSY" \in hadc[h].State
            /\ "READY" \in hadc[h].State => "READY" \in r.m.hadc[h].State
            /\ "OVR" \in r.m.Inst[h].IER => "OVR" \in Inst[h].IER

\* ------------------------------------------ the multimode slave indication
\* C38: after every successful HAL_ADCEx_InjectedStart or
\* HAL_ADCEx_InjectedStart_IT the handle has MULTIMODE_SLAVE exactly when the
\* instance is the slave of a multimode configuration that includes injected
\* conversions.
C38_SlaveBitFresh ==
  (/\ last.op \in {"InjectedStart", "InjectedStart_IT"}
   /\ last.ret = "HAL_OK")
    => ("MULTIMODE_SLAVE" \in hadc[last.h].State
          <=> /\ LL_ADC_MULTI_INSTANCE_MASTER(last.h) # last.h
              /\ CCR.DUAL \notin {"INDEPENDENT", "DUAL_REG_SIMULT",
                                  "DUAL_REG_INTERL"})

\* ------------------------------------- calls made while a context is built
\* C39: a HAL_ADCEx_InjectedConfigChannel call made while a context of
\* several ranks is under construction (ChannelCount > 0), and that does
\* not complete it, leaves JSQR as it was and keeps what is staged, whatever
\* its sequence length and rank; ChannelCount stays within 0..3.
C39_BuildUndisturbed ==
  /\ hadc["ADC1"].InjectionConfig.ChannelCount \in 0..3
  /\ \A cfg \in ConfsOf(1..MaxRank, {"ADC_INJECTED_SOFTWARE_START"}, {FALSE}) :
       LET r == HAL_ADCEx_InjectedConfigChannel(Machine, "ADC1", cfg)
           before == hadc["ADC1"].InjectionConfig
           after == r.m.hadc["ADC1"].InjectionConfig
       IN /\ after.ChannelCount \in 0..3
          /\ (before.ChannelCount > 0 /\ after.ChannelCount > 0)
               => /\ r.m.Inst["ADC1"].JSQR = Inst["ADC1"].JSQR
                  /\ before.ContextQueue \subseteq after.ContextQueue

\* ------------------------------------------ a stop that returns a failure
\* C40: a stop marks the instance ready only when it returns HAL_OK with the
\* peripheral confirmed disabled: a stop call that sets READY returns HAL_OK
\* and leaves the instance disabled.
C40_FailedStopNotReady ==
  \A a \in BOOLEAN, b \in BOOLEAN, c \in BOOLEAN, d \in BOOLEAN :
    LET m == Machine
        h == "ADC1"
        MarksReady(r) ==
          "READY" \in r.m.hadc[h].State /\ "READY" \notin hadc[h].State
        Confirmed(r) == r.ret = "HAL_OK" /\ "ADEN" \notin r.m.Inst[h].CR
        Sound(r) == MarksReady(r) => Confirmed(r)
    IN
    /\ Sound(HAL_ADCEx_InjectedStop(m, h, a, b))
    /\ Sound(HAL_ADCEx_InjectedStop_IT(m, h, a, b))
    /\ Sound(HAL_ADCEx_RegularStop(m, h, a, b))
    /\ Sound(HAL_ADCEx_RegularStop_IT(m, h, a, b))
    /\ Sound(HAL_ADCEx_RegularStop_DMA(m, h, a, b, c))
    /\ Sound(HAL_ADCEx_RegularMultiModeStop_DMA(m, h, a, TRUE, b, c, d))
    /\ Sound(HAL_ADCEx_MultiModeStop_DMA(m, h, a, TRUE, b, c, d))

=============================================================================
